---- MODULE Spec2Model ----
(***************************************************************************)
(* JobPulse: the scrape orchestrator (_run_scrape), the quality gate, the  *)
(* change detector, the stability tracker and the fallback manager, over   *)
(* the two tables job_listings and scrape_runs; and two scrape jobs of the *)
(* job queue in flight on one event loop.                                  *)
(*                                                                         *)
(* Representation.  An Optional value is a sequence of length <= 1: <<>>   *)
(* is None / SQL NULL, <<v>> is the value v.  A run-level mean is kept in  *)
(* tenths (round(mean, 1) * 10), so 40.0 is 400.  A timestamp is the tick  *)
(* of the logical clock at which the run was opened.                       *)
(***************************************************************************)
EXTENDS Integers, Sequences, FiniteSets, TLC

VARIABLES
    listings,   \* committed rows of job_listings
    runs,       \* committed rows of scrape_runs, in insertion (id) order
    conn,       \* the open connection's view of both tables, or NoConn
    clock,      \* logical time: the number of runs opened so far
    pc,         \* position of _run_scrape
    sources,    \* the sources of the current call still to be processed
    loc,        \* locals of the loop body for the current source
    results,    \* the results dict of the current call
    outcome,    \* how the last call of _run_scrape ended
    hist,       \* history of the current call and of published presence
    parked,     \* the other task of the event loop, suspended at an await
    jobs,       \* the records of _jobs, in the order they were enqueued
    job_id,     \* the job the running task executes, 0 for a direct call
    text        \* a normalizer, its argument and the values it returned

vars == <<listings, runs, conn, clock, pc, sources, loc, results, outcome, hist,
          parked, jobs, job_id, text>>

-----------------------------------------------------------------------------
(* Bounds *)

\* Runs (source attempts) opened in one behaviour of Spec: long histories
\* over few responses.
MaxRuns == 5

\* Runs opened in one behaviour of SpecWide: short histories over every
\* response.
MaxRunsWide == 3

-----------------------------------------------------------------------------
(* Program constants *)

REMOVAL_THRESHOLD == 3
RETRY_THRESHOLD == 60
REJECT_THRESHOLD == 40

\* The keys of STRATEGY_MAP that the inputs exercise.
STRATEGY_MAP == {"remoteok", "arbeitnow"}

None == <<>>
Some(v) == <<v>>
NoConn == [open |-> FALSE]
NoTask == [pc |-> "none", txn |-> FALSE]
NoText == [fn |-> "none"]

-----------------------------------------------------------------------------
(* Inputs: what a strategy's fetch() can return, after normalization *)

\* A listing as the normalize loop builds it, before it is scored:
\* "full" has every scored field (100), "mid" title and company only (50),
\* "poor" url and location only (35).
JobListing(id, src, shape) ==
    [external_id |-> id, source |-> src,
     title      |-> IF shape = "poor" THEN "" ELSE "Engineer",
     company    |-> IF shape = "poor" THEN "" ELSE "Acme",
     location   |-> IF shape = "mid" THEN None ELSE Some("Remote"),
     salary_min |-> IF shape = "full" THEN Some(100000) ELSE None,
     salary_max |-> None,
     url        |-> IF shape = "mid" THEN None ELSE Some("u"),
     quality_score |-> 0]

\* Every response of each source.  "A" is an id both sources use; the last
\* response of remoteok repeats an id and has mean 42.5.
Feeds(src) ==
    IF src = "remoteok"
    THEN { <<>>,
           <<JobListing("A", src, "full"), JobListing("B", src, "full"),
             JobListing("C", src, "full")>>,
           <<JobListing("B", src, "full"), JobListing("C", src, "full"),
             JobListing("D", src, "full")>>,
           <<JobListing("A", src, "poor")>>,
           <<JobListing("D", src, "mid"), JobListing("D", src, "poor")>> }
    ELSE { <<JobListing("A", src, "full")>> }

\* The responses of the long histories.
DeepFeeds(src) ==
    IF src = "remoteok"
    THEN { <<>>,
           <<JobListing("A", src, "full"), JobListing("B", src, "full"),
             JobListing("C", src, "full")>>,
           <<JobListing("B", src, "full"), JobListing("C", src, "full"),
             JobListing("D", src, "full")>> }
    ELSE { <<JobListing("A", src, "full")>> }

\* The source lists _run_scrape is called with.
SourceLists ==
    { <<"remoteok">>, <<"remoteok", "arbeitnow">>, <<"nosuch", "remoteok">> }

DeepLists == { <<"remoteok">>, <<"arbeitnow">> }

-----------------------------------------------------------------------------
(* pipeline/validator.py *)

\* Python truthiness of an Optional[str] and of an Optional[int].
TruthyStr(opt) == opt # None /\ Len(opt[1]) > 0

TruthyInt(opt) == opt # None /\ opt[1] # 0

\* A seeded fault: the salary points need both bounds.
score_listingBothBounds(l) ==
      (IF Len(l.title) > 0 /\ Len(l.title) > 2 THEN 25 ELSE 0)
    + (IF Len(l.company) > 0 /\ Len(l.company) > 1 THEN 25 ELSE 0)
    + (IF TruthyStr(l.url) THEN 20 ELSE 0)
    + (IF TruthyStr(l.location) THEN 15 ELSE 0)
    + (IF TruthyInt(l.salary_min) /\ TruthyInt(l.salary_max) THEN 15 ELSE 0)

\* A seeded fault: a salary bound counts whenever it is not None.
score_listingAnySalary(l) ==
      (IF Len(l.title) > 0 /\ Len(l.title) > 2 THEN 25 ELSE 0)
    + (IF Len(l.company) > 0 /\ Len(l.company) > 1 THEN 25 ELSE 0)
    + (IF TruthyStr(l.url) THEN 20 ELSE 0)
    + (IF TruthyStr(l.location) THEN 15 ELSE 0)
    + (IF l.salary_min # None \/ l.salary_max # None THEN 15 ELSE 0)

score_listing(l) ==
      (IF Len(l.title) > 0 /\ Len(l.title) > 2 THEN 25 ELSE 0)
    + (IF Len(l.company) > 0 /\ Len(l.company) > 1 THEN 25 ELSE 0)
    + (IF TruthyStr(l.url) THEN 20 ELSE 0)
    + (IF TruthyStr(l.location) THEN 15 ELSE 0)
    + (IF TruthyInt(l.salary_min) \/ TruthyInt(l.salary_max) THEN 15 ELSE 0)

RECURSIVE SumSeq(_)
SumSeq(s) == IF s = <<>> THEN 0 ELSE Head(s) + SumSeq(Tail(s))

\* round(total / n, 1) in tenths: to nearest, a tie to the even tenth
\* (a tie total/n = k.x5 is a multiple of 1/4 and exact in binary).
Round1(total, n) ==
    LET q == (10 * total) \div n
        r == (10 * total) % n
    IN  IF 2 * r > n THEN q + 1
        ELSE IF 2 * r < n THEN q
        ELSE IF q % 2 = 0 THEN q ELSE q + 1

\* A seeded fault: only salary_min counts as salary data.
score_scrapeMinOnly(ls) ==
    IF ls = <<>>
    THEN [mean |-> 0, issues |-> <<"No listings returned">>]
    ELSE LET scores == [i \in DOMAIN ls |-> score_listing(ls[i])]
             n == Len(scores)
             low == Cardinality({i \in DOMAIN scores : scores[i] < 50})
             no_salary == Cardinality({i \in DOMAIN ls :
                              ~TruthyInt(ls[i].salary_min)})
             no_location == Cardinality({i \in DOMAIN ls :
                                ~TruthyStr(ls[i].location)})
             i1 == IF 2 * low > n THEN <<"listings scored below 50">> ELSE <<>>
             i2 == IF no_salary = n
                   THEN <<"No listings have salary data">> ELSE <<>>
             i3 == IF 10 * no_location > 8 * n
                   THEN <<"listings missing location">> ELSE <<>>
         IN  [mean |-> Round1(SumSeq(scores), n), issues |-> i1 \o i2 \o i3]

score_scrape(ls) ==
    IF ls = <<>>
    THEN [mean |-> 0, issues |-> <<"No listings returned">>]
    ELSE LET scores == [i \in DOMAIN ls |-> score_listing(ls[i])]
             n == Len(scores)
             low == Cardinality({i \in DOMAIN scores : scores[i] < 50})
             no_salary == Cardinality({i \in DOMAIN ls :
                              /\ ~TruthyInt(ls[i].salary_min)
                              /\ ~TruthyInt(ls[i].salary_max)})
             no_location == Cardinality({i \in DOMAIN ls :
                                ~TruthyStr(ls[i].location)})
             i1 == IF 2 * low > n THEN <<"listings scored below 50">> ELSE <<>>
             i2 == IF no_salary = n
                   THEN <<"No listings have salary data">> ELSE <<>>
             i3 == IF 10 * no_location > 8 * n
                   THEN <<"listings missing location">> ELSE <<>>
         IN  [mean |-> Round1(SumSeq(scores), n), issues |-> i1 \o i2 \o i3]

\* A seeded fault: a score equal to the threshold retries too.
should_retryInclusive(score) == score <= RETRY_THRESHOLD * 10

should_retry(score) == score < RETRY_THRESHOLD * 10

\* A seeded fault: a score equal to the threshold is rejected too.
should_rejectInclusive(score) == score <= REJECT_THRESHOLD * 10

should_reject(score) == score < REJECT_THRESHOLD * 10

-----------------------------------------------------------------------------
(* pipeline/normalizer.py.  A text is a sequence of tokens: a word, a word  *)
(* with its full stop ("Sr.", "Inc."), a space, a punctuation character or  *)
(* an escaped character ("&lt;").  The text is the concatenation of its     *)
(* tokens, and no token is the concatenation of others.                     *)

\* The members of ACRONYMS and of REMOTE_VARIANTS that the texts can spell.
ACRONYMS == {"qa"}
REMOTE_VARIANTS == {"remote", "anywhere"}

\* The legal suffixes of normalize_company's pattern that the texts can spell.
LegalSuffixes == {"Inc.", "LLC"}

\* Tokens made of word characters only (\w), and tokens that begin with one.
WordTokens ==
    {"Dev", "Developer", "Senior", "qa", "Qa", "QA",
     "Acme", "LLC", "Remote", "anywhere"}

EndsWord(t) == t \in WordTokens

StartsWord(t) == t \in WordTokens \cup {"Sr.", "Inc."}

\* str.lower() of a token.
Lower(t) ==
    CASE t \in {"QA", "Qa"} -> "qa"
      [] t = "Sr." -> "sr."
      [] t = "Senior" -> "senior"
      [] t = "Dev" -> "dev"
      [] t = "Developer" -> "developer"
      [] t = "Acme" -> "acme"
      [] t = "Inc." -> "inc."
      [] t = "LLC" -> "llc"
      [] t = "Remote" -> "remote"
      [] OTHER -> t

\* str.upper() of a token whose lower-case form is in ACRONYMS.
Upper(t) == IF Lower(t) = "qa" THEN "QA" ELSE t

\* The token has an upper-case character; it has one after its first.
HasUpper(t) == t # Lower(t)

HasUpperInTail(t) == t \in {"QA", "LLC"}

\* str.capitalize() of a token that has no upper-case character after its
\* first.
Capitalize(t) == IF t = "qa" THEN "Qa" ELSE t

\* The index of the first ">" after the head of s, 0 if there is none.
FirstClose(s) ==
    IF \E j \in 2..Len(s) : s[j] = ">"
    THEN CHOOSE j \in 2..Len(s) :
             s[j] = ">" /\ \A k \in 2..(j - 1) : s[k] # ">"
    ELSE 0

\* re.sub(r"<[^>]+>", "", text)
RECURSIVE StripTags(_)
StripTags(s) ==
    IF s = <<>> THEN <<>>
    ELSE IF Head(s) = "<" /\ FirstClose(s) >= 3
         THEN StripTags(SubSeq(s, FirstClose(s) + 1, Len(s)))
         ELSE <<Head(s)>> \o StripTags(Tail(s))

\* html.unescape(text)
html_unescape(s) ==
    [i \in DOMAIN s |-> CASE s[i] = "&lt;" -> "<"
                          [] s[i] = "&gt;" -> ">"
                          [] OTHER -> s[i]]

strip_html(s) == html_unescape(StripTags(s))

RECURSIVE LStrip(_)
LStrip(s) == IF s # <<>> /\ Head(s) = " " THEN LStrip(Tail(s)) ELSE s

RECURSIVE Strip(_)
Strip(s) ==
    IF s # <<>> /\ Head(s) = " " THEN Strip(Tail(s))
    ELSE IF s # <<>> /\ s[Len(s)] = " " THEN Strip(SubSeq(s, 1, Len(s) - 1))
    ELSE s

RECURSIVE CollapseSpaces(_)
CollapseSpaces(s) ==
    IF Len(s) < 2 THEN s
    ELSE IF s[1] = " " /\ s[2] = " " THEN CollapseSpaces(Tail(s))
    ELSE <<s[1]>> \o CollapseSpaces(Tail(s))

\* re.sub(r"\s+", " ", text).strip()
normalize_whitespace(s) == Strip(CollapseSpaces(s))

\* re.sub(r"\bSr\.?\s*", "Senior ", title): bound says that the character
\* before the head of s is not a word character.
RECURSIVE ExpandSr(_, _)
ExpandSr(s, bound) ==
    IF s = <<>> THEN <<>>
    ELSE IF Head(s) = "Sr." /\ bound
         THEN <<"Senior", " ">> \o ExpandSr(LStrip(Tail(s)), TRUE)
         ELSE <<Head(s)>> \o ExpandSr(Tail(s), ~EndsWord(Head(s)))

\* re.sub(r"\bDev\.?\b", "Developer", title)
ExpandDev(s) ==
    [i \in DOMAIN s |->
        IF /\ s[i] = "Dev"
           /\ (i = 1 \/ ~EndsWord(s[i - 1]))
           /\ (i = Len(s) \/ ~StartsWord(s[i + 1]))
        THEN "Developer" ELSE s[i]]

\* title.split()
RECURSIVE Split(_)
Split(s) ==
    LET t == LStrip(s)
        n == IF \E j \in DOMAIN t : t[j] = " "
             THEN CHOOSE j \in DOMAIN t :
                      t[j] = " " /\ \A k \in 1..(j - 1) : t[k] # " "
             ELSE Len(t) + 1
    IN  IF t = <<>> THEN <<>>
        ELSE <<SubSeq(t, 1, n - 1)>> \o Split(SubSeq(t, n, Len(t)))

\* " ".join(normalized)
RECURSIVE Join(_)
Join(ws) ==
    IF ws = <<>> THEN <<>>
    ELSE IF Len(ws) = 1 THEN ws[1]
    ELSE ws[1] \o <<" ">> \o Join(Tail(ws))

\* The body of the loop over words.
TitleWord(w) ==
    IF Len(w) = 1 /\ Lower(w[1]) \in ACRONYMS
    THEN <<Upper(w[1])>>
    ELSE IF Len(w) >= 2 /\ w[1] = "(" /\ w[Len(w)] = ")"
    THEN IF Len(w) = 3 /\ Lower(w[2]) \in ACRONYMS
         THEN <<"(", Upper(w[2]), ")">> ELSE w
    ELSE IF HasUpperInTail(w[1]) \/ \E i \in 2..Len(w) : HasUpper(w[i])
    THEN w
    ELSE <<Capitalize(w[1])>> \o Tail(w)

normalize_title(raw_title) ==
    LET title == ExpandDev(ExpandSr(normalize_whitespace(strip_html(raw_title)),
                                    TRUE))
        words == Split(title)
    IN  Join([i \in DOMAIN words |-> TitleWord(words[i])])

normalize_company(raw_company) ==
    LET company == normalize_whitespace(strip_html(raw_company))
        n == Len(company)
    IN  IF n >= 2 /\ company[n] \in LegalSuffixes /\ company[n - 1] = " "
        THEN SubSeq(company, 1, n - 2)
        ELSE company

\* The index of the last ")" of s, 0 if there is none.
LastClose(s) ==
    IF \E j \in DOMAIN s : s[j] = ")"
    THEN CHOOSE j \in DOMAIN s :
             s[j] = ")" /\ \A k \in (j + 1)..Len(s) : s[k] # ")"
    ELSE 0

\* The argument and the result are Optional: None, or Some(text).
normalize_location(raw_location) ==
    IF raw_location = None \/ raw_location[1] = <<>> THEN None
    ELSE LET location == normalize_whitespace(strip_html(raw_location[1]))
             \* past "remote" and the whitespace after it
             rest == IF location # <<>> /\ Lower(location[1]) = "remote"
                     THEN LStrip(Tail(location)) ELSE <<>>
         IN  IF Len(location) = 1 /\ Lower(location[1]) \in REMOTE_VARIANTS
             THEN Some(<<"Remote">>)
             ELSE IF rest # <<>> /\ Head(rest) = "," /\ Len(rest) >= 2
             THEN Some(<<"Remote", " ", "(">> \o Strip(Tail(rest)) \o <<")">>)
             ELSE IF rest # <<>> /\ Head(rest) = "(" /\ LastClose(rest) >= 3
             THEN Some(<<"Remote", " ", "(">>
                       \o Strip(SubSeq(rest, 2, LastClose(rest) - 1))
                       \o <<")">>)
             ELSE Some(location)

-----------------------------------------------------------------------------
(* pipeline/change_detector.py *)

\* A seeded fault: the operands of the removed set are swapped.
detect_changesSwapped(previous_ids, current_ids) ==
    [added    |-> current_ids \ previous_ids,
     removed  |-> current_ids \ previous_ids,
     retained |-> current_ids \cap previous_ids]

\* A seeded fault: every current id is reported as retained.
detect_changesAllRetained(previous_ids, current_ids) ==
    [added    |-> current_ids \ previous_ids,
     removed  |-> previous_ids \ current_ids,
     retained |-> current_ids]

detect_changes(previous_ids, current_ids) ==
    [added    |-> current_ids \ previous_ids,
     removed  |-> previous_ids \ current_ids,
     retained |-> current_ids \cap previous_ids]

\* A seeded fault: the total counts the removed ids too.
build_change_summaryAll(changes) ==
    [added_count    |-> Cardinality(changes.added),
     removed_count  |-> Cardinality(changes.removed),
     retained_count |-> Cardinality(changes.retained),
     total_count    |-> Cardinality(changes.added) + Cardinality(changes.removed)
                        + Cardinality(changes.retained)]

build_change_summary(changes) ==
    [added_count    |-> Cardinality(changes.added),
     removed_count  |-> Cardinality(changes.removed),
     retained_count |-> Cardinality(changes.retained),
     total_count    |-> Cardinality(changes.added) + Cardinality(changes.retained)]

-----------------------------------------------------------------------------
(* The tables.  A row of job_listings carries the scored columns; currency, *)
(* tags and posted_at are written by the upsert and read by nothing here.   *)

\* A seeded fault: the SELECT does not filter by is_active.
ActiveRowsAndInactive(ls, source) == {r \in ls : r.source = source}

\* A seeded fault: the SELECT does not filter by source.
ActiveRowsAnySource(ls, source) == {r \in ls : r.is_active}

ActiveRows(ls, source) == {r \in ls : r.source = source /\ r.is_active}

ActiveIds(ls, source) == {r.external_id : r \in ActiveRows(ls, source)}

HasRow(ls, id, source) == \E r \in ls : r.external_id = id /\ r.source = source

RowOf(ls, id, source) ==
    CHOOSE r \in ls : r.external_id = id /\ r.source = source

\* INSERT INTO scrape_runs (source, started_at, status) VALUES (?, ?, 'running')
RunningRun(source, now) ==
    [source |-> source, started_at |-> now, completed_at |-> None,
     status |-> "running", quality_score |-> 0, total_count |-> 0,
     added_count |-> 0, removed_count |-> 0, retained_count |-> 0]

-----------------------------------------------------------------------------
(* resilience/stability_tracker.py *)

\* A seeded fault: the threshold test is off by one.
StabilityRowEarly(row, current_ids, now) ==
    IF row.external_id \in current_ids
    THEN [row EXCEPT !.consecutive_misses = 0, !.last_seen = now]
    ELSE LET new_misses == row.consecutive_misses + 1
         IN  IF new_misses + 1 >= REMOVAL_THRESHOLD
             THEN [row EXCEPT !.consecutive_misses = new_misses,
                              !.is_active = FALSE]
             ELSE [row EXCEPT !.consecutive_misses = new_misses]

\* A seeded fault: the confirmed branch does not clear is_active.
StabilityRowKeepActive(row, current_ids, now) ==
    IF row.external_id \in current_ids
    THEN [row EXCEPT !.consecutive_misses = 0, !.last_seen = now]
    ELSE [row EXCEPT !.consecutive_misses = row.consecutive_misses + 1]

\* A seeded fault: a found row keeps its counter.
StabilityRowNoReset(row, current_ids, now) ==
    IF row.external_id \in current_ids
    THEN [row EXCEPT !.last_seen = now]
    ELSE LET new_misses == row.consecutive_misses + 1
         IN  IF new_misses >= REMOVAL_THRESHOLD
             THEN [row EXCEPT !.consecutive_misses = new_misses,
                              !.is_active = FALSE]
             ELSE [row EXCEPT !.consecutive_misses = new_misses]

\* A seeded fault: the threshold test is strict.
StabilityRowLate(row, current_ids, now) ==
    IF row.external_id \in current_ids
    THEN [row EXCEPT !.consecutive_misses = 0, !.last_seen = now]
    ELSE LET new_misses == row.consecutive_misses + 1
         IN  IF new_misses > REMOVAL_THRESHOLD
             THEN [row EXCEPT !.consecutive_misses = new_misses,
                              !.is_active = FALSE]
             ELSE [row EXCEPT !.consecutive_misses = new_misses]

\* A seeded fault: a missing row's counter grows by two.
StabilityRowSkip(row, current_ids, now) ==
    IF row.external_id \in current_ids
    THEN [row EXCEPT !.consecutive_misses = 0, !.last_seen = now]
    ELSE LET new_misses == row.consecutive_misses + 2
         IN  IF new_misses >= REMOVAL_THRESHOLD
             THEN [row EXCEPT !.consecutive_misses = new_misses,
                              !.is_active = FALSE]
             ELSE [row EXCEPT !.consecutive_misses = new_misses]

\* The loop body of update_stability for one active row of the source:
\* the row as the UPDATE leaves it.
StabilityRow(row, current_ids, now) ==
    IF row.external_id \in current_ids
    THEN [row EXCEPT !.consecutive_misses = 0, !.last_seen = now]
    ELSE LET new_misses == row.consecutive_misses + 1
         IN  IF new_misses >= REMOVAL_THRESHOLD
             THEN [row EXCEPT !.consecutive_misses = new_misses,
                              !.is_active = FALSE]
             ELSE [row EXCEPT !.consecutive_misses = new_misses]

\* One UPDATE of update_stability: the columns it sets, computed from the
\* row as it was selected, written to the row that has the key now.
StabilityWrite(cur, row, current_ids, now) ==
    LET s == StabilityRow(row, current_ids, now)
    IN  [cur EXCEPT !.consecutive_misses = s.consecutive_misses,
                    !.is_active = IF s.is_active # row.is_active
                                  THEN s.is_active ELSE @,
                    !.last_seen = IF s.last_seen # row.last_seen
                                  THEN s.last_seen ELSE @]

\* update_stability after its SELECT: rows are the rows selected with
\* is_active = 1, ls is the table as the UPDATEs find it.  A missing row
\* goes to confirmed_removals in the branch that clears is_active, to
\* tentative_removals in the other.
update_stability(ls, rows, current_ids, now) ==
    LET missing == {r \in rows : r.external_id \notin current_ids}
        Selected(q) == \E r \in rows : /\ r.external_id = q.external_id
                                       /\ r.source = q.source
    IN  [listings |->
             {IF Selected(q)
              THEN StabilityWrite(q, RowOf(rows, q.external_id, q.source),
                                  current_ids, now)
              ELSE q : q \in ls},
         confirmed_removals |->
             {r.external_id : r \in
                 {m \in missing : ~StabilityRow(m, current_ids, now).is_active}},
         tentative_removals |->
             {r.external_id : r \in
                 {m \in missing : StabilityRow(m, current_ids, now).is_active}}]

-----------------------------------------------------------------------------
(* resilience/fallback.py *)

\* A seeded fault: any completed run qualifies, whatever its score.
get_last_successful_scrapeAnyScore(c, source) ==
    IF ~\E i \in DOMAIN c.runs :
           /\ c.runs[i].source = source
           /\ c.runs[i].status = "completed"
    THEN None
    ELSE IF ActiveRows(c.listings, source) = {}
         THEN None
         ELSE Some(ActiveRows(c.listings, source))

get_last_successful_scrape(c, source) ==
    IF ~\E i \in DOMAIN c.runs :
           /\ c.runs[i].source = source
           /\ c.runs[i].status = "completed"
           /\ c.runs[i].quality_score >= 600
    THEN None
    ELSE IF ActiveRows(c.listings, source) = {}
         THEN None
         ELSE Some(ActiveRows(c.listings, source))

\* The row record_fallback_usage inserts (the reason is not a column).
FallbackRun(source, now) ==
    [RunningRun(source, now) EXCEPT !.completed_at = Some(now),
                                    !.status = "fallback",
                                    !.quality_score = 0]

\* The reason _run_scrape passes: f"Score {mean_score}".
ScoreReason(mean_score) == [score |-> mean_score]

\* record_fallback_usage(db, source, reason): the INSERT does not use the
\* reason.
record_fallback_usage(rs, source, reason, now) ==
    Append(rs, FallbackRun(source, now))

-----------------------------------------------------------------------------
(* api/routes.py: the statements of _run_scrape *)

\* A seeded fault: the conflict clause also sets first_seen.
UpsertResetFirstSeen(ls, l, now_ts) ==
    IF HasRow(ls, l.external_id, l.source)
    THEN LET old == RowOf(ls, l.external_id, l.source)
         IN  (ls \ {old}) \cup
             {[old EXCEPT !.title = l.title, !.company = l.company,
                          !.location = l.location,
                          !.salary_min = l.salary_min,
                          !.salary_max = l.salary_max, !.url = l.url,
                          !.first_seen = now_ts,
                          !.last_seen = now_ts, !.is_active = TRUE,
                          !.consecutive_misses = 0,
                          !.quality_score = l.quality_score]}
    ELSE ls \cup
         {[external_id |-> l.external_id, source |-> l.source,
           title |-> l.title, company |-> l.company,
           location |-> l.location, salary_min |-> l.salary_min,
           salary_max |-> l.salary_max, url |-> l.url,
           first_seen |-> now_ts, last_seen |-> now_ts,
           is_active |-> TRUE, consecutive_misses |-> 0,
           quality_score |-> l.quality_score]}

\* A seeded fault: the conflict clause is missing and every listing is
\* inserted as a new row.
UpsertInsertOnly(ls, l, now_ts) ==
    ls \cup
    {[external_id |-> l.external_id, source |-> l.source,
      title |-> l.title, company |-> l.company,
      location |-> l.location, salary_min |-> l.salary_min,
      salary_max |-> l.salary_max, url |-> l.url,
      first_seen |-> now_ts, last_seen |-> now_ts,
      is_active |-> TRUE, consecutive_misses |-> 0,
      quality_score |-> l.quality_score]}

\* A seeded fault: the conflict clause does not set is_active.
UpsertKeepInactive(ls, l, now_ts) ==
    IF HasRow(ls, l.external_id, l.source)
    THEN LET old == RowOf(ls, l.external_id, l.source)
         IN  (ls \ {old}) \cup
             {[old EXCEPT !.title = l.title, !.company = l.company,
                          !.location = l.location,
                          !.salary_min = l.salary_min,
                          !.salary_max = l.salary_max, !.url = l.url,
                          !.last_seen = now_ts,
                          !.consecutive_misses = 0,
                          !.quality_score = l.quality_score]}
    ELSE UpsertInsertOnly(ls, l, now_ts)

\* INSERT INTO job_listings ... ON CONFLICT(external_id, source) DO UPDATE
Upsert(ls, l, now_ts) ==
    IF HasRow(ls, l.external_id, l.source)
    THEN LET old == RowOf(ls, l.external_id, l.source)
         IN  (ls \ {old}) \cup
             {[old EXCEPT !.title = l.title, !.company = l.company,
                          !.location = l.location,
                          !.salary_min = l.salary_min,
                          !.salary_max = l.salary_max, !.url = l.url,
                          !.last_seen = now_ts, !.is_active = TRUE,
                          !.consecutive_misses = 0,
                          !.quality_score = l.quality_score]}
    ELSE ls \cup
         {[external_id |-> l.external_id, source |-> l.source,
           title |-> l.title, company |-> l.company,
           location |-> l.location, salary_min |-> l.salary_min,
           salary_max |-> l.salary_max, url |-> l.url,
           first_seen |-> now_ts, last_seen |-> now_ts,
           is_active |-> TRUE, consecutive_misses |-> 0,
           quality_score |-> l.quality_score]}

\* UPDATE scrape_runs SET ... WHERE source=? AND started_at=?
CompleteRun(rs, source, now, mean_score, summary) ==
    [i \in DOMAIN rs |->
        IF rs[i].source = source /\ rs[i].started_at = now
        THEN [rs[i] EXCEPT !.completed_at = Some(now),
                           !.status = "completed",
                           !.quality_score = mean_score,
                           !.total_count = summary.total_count,
                           !.added_count = summary.added_count,
                           !.removed_count = summary.removed_count,
                           !.retained_count = summary.retained_count]
        ELSE rs[i]]

\* A seeded fault: removed is the size of the diff's removed set.
CompletedOutcomeDiffRemoved(mean_score, summary, stability) ==
    [status |-> "completed", quality_score |-> mean_score,
     total |-> summary.total_count, added |-> summary.added_count,
     removed |-> summary.removed_count,
     tentative_removals |-> Cardinality(stability.tentative_removals)]

\* The result of the publish path.
CompletedOutcome(mean_score, summary, stability) ==
    [status |-> "completed", quality_score |-> mean_score,
     total |-> summary.total_count, added |-> summary.added_count,
     removed |-> Cardinality(stability.confirmed_removals),
     tentative_removals |-> Cardinality(stability.tentative_removals)]

\* A seeded fault: a lookup that found nothing is reported as a failure.
FallbackOutcomeFailed(mean_score, fallback) ==
    [status |-> IF fallback = None THEN "failed" ELSE "fallback",
     reason |-> mean_score,
     listings_count |-> IF fallback = None THEN 0
                        ELSE Cardinality(fallback[1])]

\* The result of the fallback path.
FallbackOutcome(mean_score, fallback) ==
    [status |-> "fallback", reason |-> mean_score,
     listings_count |-> IF fallback = None THEN 0
                        ELSE Cardinality(fallback[1])]

FailedOutcome(e) == [status |-> "failed", error |-> e]

-----------------------------------------------------------------------------
(* History (not program state): what the properties below speak about *)

Key(source, id) == <<source, id>>

Get(f, k) == IF k \in DOMAIN f THEN f[k] ELSE 0

KeysOf(ls) == {Key(r.source, r.external_id) : r \in ls}

IdsOf(ls) == {ls[i].external_id : i \in DOMAIN ls}

\* absent[k]: the consecutive published runs of k's source, up to now, whose
\* id set lacked k's external_id.
AbsentAfterPublish(absent, ls, source, current_ids) ==
    LET ks == KeysOf({r \in ls : r.source = source})
    IN  [k \in DOMAIN absent \cup ks |->
            IF k \in ks
            THEN IF k[2] \in current_ids THEN 0 ELSE Get(absent, k) + 1
            ELSE absent[k]]

\* unreturned[k]: the consecutive runs of k's source that ended without
\* raising (published or rejected) and whose response lacked k's
\* external_id, counted from a state in which the listing was active with
\* consecutive_misses = 0; -1 when no such state precedes.
UnreturnedAfterRun(unreturned, ls, source, returned_ids) ==
    LET ks == KeysOf({r \in ls : r.source = source})
    IN  [k \in DOMAIN unreturned \cup ks |->
            IF k \in ks
            THEN LET r == RowOf(ls, k[2], source)
                 IN  IF k[2] \in returned_ids
                     THEN IF r.is_active /\ r.consecutive_misses = 0
                          THEN 0 ELSE -1
                     ELSE IF Get(unreturned, k) < 0 THEN -1
                          ELSE Get(unreturned, k) + 1
            ELSE unreturned[k]]

-----------------------------------------------------------------------------
(* api/routes.py: _run_scrape as a state machine *)

LocInit ==
    [now |-> 0, raw |-> <<>>, normalized |-> <<>>, mean_score |-> 0,
     issues |-> <<>>, fallback |-> None, previous_ids |-> {},
     current_ids |-> {}, changes |-> detect_changes({}, {}),
     summary |-> build_change_summary(detect_changes({}, {})),
     rows |-> {},
     stability |-> [confirmed_removals |-> {}, tentative_removals |-> {}],
     i |-> 0]

HistInit ==
    [base |-> 0, requested |-> <<>>, attempted |-> <<>>, steps |-> <<>>,
     before |-> {},
     absent |-> <<>>, unreturned |-> <<>>]

\* The statements inside the try block, by position.
TrySteps ==
    {"insert_run", "fetch", "normalize", "validate", "gate",
     "fallback_lookup", "fallback_record", "diff", "stability",
     "stability_update", "upsert"}

source_name == Head(sources)

\* One connection writes at a time: a statement that writes waits while the
\* connection of the other task has uncommitted writes.
WriteLockFree == ~parked.txn

Did(step) == [hist EXCEPT !.steps = Append(@, step)]

\* The history once the loop body has ended for the current source.
RunEnded ==
    [hist EXCEPT !.steps = <<>>,
                 !.unreturned =
                    IF hist.steps # <<>> /\ hist.steps[Len(hist.steps)] # "except"
                    THEN UnreturnedAfterRun(@, listings, source_name,
                                            IdsOf(loc.raw))
                    ELSE @]

Init ==
    /\ listings = {}
    /\ runs = <<>>
    /\ conn = NoConn
    /\ clock = 0
    /\ pc = "idle"
    /\ sources = <<>>
    /\ loc = LocInit
    /\ results = <<>>
    /\ outcome = "none"
    /\ hist = HistInit
    /\ parked = NoTask
    /\ jobs = <<>>
    /\ job_id = 0
    /\ text = NoText

\* A caller invokes _run_scrape(srcs).
Start(srcs, max) ==
    /\ pc = "idle"
    /\ clock + Len(srcs) <= max
    /\ pc' = "loop"
    /\ sources' = srcs
    /\ results' = <<>>
    /\ outcome' = "none"
    /\ loc' = LocInit
    /\ hist' = [hist EXCEPT !.base = Len(runs), !.requested = srcs,
                            !.attempted = <<>>, !.steps = <<>>,
                            !.before = listings]
    /\ UNCHANGED <<listings, runs, conn, clock, parked,
                   jobs, job_id, text>>

\* for source_name in sources: db = await get_db()
GetDb ==
    /\ pc = "loop" /\ sources # <<>>
    /\ conn' = [open |-> TRUE, listings |-> listings, runs |-> runs]
    /\ clock' = clock + 1
    /\ loc' = [LocInit EXCEPT !.now = clock + 1]
    /\ pc' = "insert_run"
    /\ hist' = [hist EXCEPT !.attempted = Append(@, source_name),
                            !.steps = <<>>, !.before = listings]
    /\ UNCHANGED <<listings, runs, sources, results, outcome, parked,
                   jobs, job_id, text>>

\* get_db() raises: it is called outside the try, so the call ends there.
GetDbFail ==
    /\ pc = "loop" /\ sources # <<>>
    /\ pc' = "idle"
    /\ outcome' = "raised"
    /\ UNCHANGED <<listings, runs, conn, clock, sources, loc,
                   results, hist, parked,
                   jobs, job_id, text>>

\* return results
Return ==
    /\ pc = "loop" /\ sources = <<>>
    /\ pc' = "idle"
    /\ outcome' = "returned"
    /\ UNCHANGED <<listings, runs, conn, clock, sources, loc,
                   results, hist, parked,
                   jobs, job_id, text>>

\* INSERT INTO scrape_runs ... 'running'; commit
InsertRun ==
    /\ pc = "insert_run"
    /\ WriteLockFree
    /\ LET c == [conn EXCEPT !.runs = Append(@, RunningRun(source_name, loc.now))]
       IN  /\ conn' = c
           /\ runs' = c.runs
           /\ listings' = c.listings
    /\ pc' = "fetch"
    /\ hist' = Did("insert_run")
    /\ UNCHANGED <<clock, sources, loc, results, outcome, parked,
                   jobs, job_id, text>>

\* strategy = create_strategy(source_name); raw_listings = await strategy.fetch()
Fetch(wide) ==
    /\ pc = "fetch"
    /\ source_name \in STRATEGY_MAP
    /\ \E feed \in (IF wide THEN Feeds(source_name)
                     ELSE DeepFeeds(source_name)) :
          loc' = [loc EXCEPT !.raw = feed]
    /\ pc' = "normalize"
    /\ hist' = Did("fetch")
    /\ UNCHANGED <<listings, runs, conn, clock, sources, results,
                   outcome, parked,
                   jobs, job_id, text>>

\* the normalize loop: each listing is built and given its score
Normalize ==
    /\ pc = "normalize"
    /\ loc' = [loc EXCEPT !.normalized =
                  [i \in DOMAIN loc.raw |->
                      [loc.raw[i] EXCEPT !.quality_score = score_listing(loc.raw[i])]]]
    /\ pc' = "validate"
    /\ hist' = Did("normalize")
    /\ UNCHANGED <<listings, runs, conn, clock, sources, results,
                   outcome, parked,
                   jobs, job_id, text>>

\* mean_score, issues = score_scrape(normalized)
Validate ==
    /\ pc = "validate"
    /\ LET v == score_scrape(loc.normalized)
       IN  loc' = [loc EXCEPT !.mean_score = v.mean, !.issues = v.issues]
    /\ pc' = "gate"
    /\ hist' = Did("score")
    /\ UNCHANGED <<listings, runs, conn, clock, sources, results,
                   outcome, parked,
                   jobs, job_id, text>>

\* A seeded fault: a reported issue rejects the run too.
GateOnIssues ==
    /\ pc = "gate"
    /\ pc' = IF should_reject(loc.mean_score) \/ loc.issues # <<>>
             THEN "fallback_lookup" ELSE "diff"
    /\ hist' = Did("gate")
    /\ UNCHANGED <<listings, runs, conn, clock, sources, loc,
                   results, outcome, parked,
                   jobs, job_id, text>>

\* A seeded fault: no run is rejected.
GateNoReject ==
    /\ pc = "gate"
    /\ pc' = "diff"
    /\ hist' = Did("gate")
    /\ UNCHANGED <<listings, runs, conn, clock, sources, loc,
                   results, outcome, parked,
                   jobs, job_id, text>>

\* A seeded fault: a mean below the retry threshold fetches again.
GateRetry ==
    /\ pc = "gate"
    /\ pc' = IF should_reject(loc.mean_score) THEN "fallback_lookup"
             ELSE IF should_retry(loc.mean_score) THEN "fetch" ELSE "diff"
    /\ hist' = Did("gate")
    /\ UNCHANGED <<listings, runs, conn, clock, sources, loc,
                   results, outcome, parked,
                   jobs, job_id, text>>

\* if should_reject(mean_score):
Gate ==
    /\ pc = "gate"
    /\ pc' = IF should_reject(loc.mean_score) THEN "fallback_lookup" ELSE "diff"
    /\ hist' = Did("gate")
    /\ UNCHANGED <<listings, runs, conn, clock, sources, loc,
                   results, outcome, parked,
                   jobs, job_id, text>>

\* fallback = await get_last_successful_scrape(db, source_name)
FallbackLookup ==
    /\ pc = "fallback_lookup"
    /\ loc' = [loc EXCEPT !.fallback = get_last_successful_scrape(conn, source_name)]
    /\ pc' = "fallback_record"
    /\ hist' = Did("fallback_lookup")
    /\ UNCHANGED <<listings, runs, conn, clock, sources, results,
                   outcome, parked,
                   jobs, job_id, text>>

\* A seeded fault: the continue is missing and the publish path follows.
FallbackRecordNoContinue ==
    /\ pc = "fallback_record"
    /\ WriteLockFree
    /\ LET c == [conn EXCEPT !.runs =
                    record_fallback_usage(@, source_name,
                                          ScoreReason(loc.mean_score), loc.now)]
       IN  /\ conn' = c
           /\ runs' = c.runs
           /\ listings' = c.listings
    /\ results' = (source_name :> FallbackOutcome(loc.mean_score, loc.fallback))
                  @@ results
    /\ pc' = "diff"
    /\ hist' = Did("fallback_record")
    /\ UNCHANGED <<clock, sources, loc, outcome, parked,
                   jobs, job_id, text>>

\* await record_fallback_usage(...); results[source_name] = {...}; continue
FallbackRecord ==
    /\ pc = "fallback_record"
    /\ WriteLockFree
    /\ LET c == [conn EXCEPT !.runs =
                    record_fallback_usage(@, source_name,
                                          ScoreReason(loc.mean_score), loc.now)]
       IN  /\ conn' = c
           /\ runs' = c.runs
           /\ listings' = c.listings
    /\ results' = (source_name :> FallbackOutcome(loc.mean_score, loc.fallback))
                  @@ results
    /\ pc' = "close"
    /\ hist' = Did("fallback_record")
    /\ UNCHANGED <<clock, sources, loc, outcome, parked,
                   jobs, job_id, text>>

\* previous_ids, current_ids, changes, summary
Diff ==
    /\ pc = "diff"
    /\ LET prev == ActiveIds(conn.listings, source_name)
           cur == IdsOf(loc.normalized)
           ch == detect_changes(prev, cur)
       IN  loc' = [loc EXCEPT !.previous_ids = prev, !.current_ids = cur,
                              !.changes = ch,
                              !.summary = build_change_summary(ch)]
    /\ pc' = "stability"
    /\ hist' = Did("diff")
    /\ UNCHANGED <<listings, runs, conn, clock, sources, results,
                   outcome, parked,
                   jobs, job_id, text>>

\* update_stability: SELECT ... WHERE source = ? AND is_active = 1
StabilitySelect ==
    /\ pc = "stability"
    /\ loc' = [loc EXCEPT !.rows = ActiveRows(conn.listings, source_name)]
    /\ pc' = "stability_update"
    /\ UNCHANGED <<listings, runs, conn, clock, sources, results,
                   outcome, hist, parked,
                   jobs, job_id, text>>

\* update_stability: the UPDATE loop over the selected rows, and the return
Stability ==
    /\ pc = "stability_update"
    /\ IF loc.rows = {} THEN TRUE ELSE WriteLockFree
    /\ LET st == update_stability(conn.listings, loc.rows,
                                  loc.current_ids, loc.now)
       IN  /\ conn' = [conn EXCEPT !.listings = st.listings]
           /\ loc' = [loc EXCEPT
                        !.stability =
                            [confirmed_removals |-> st.confirmed_removals,
                             tentative_removals |-> st.tentative_removals],
                        !.i = 1]
    /\ pc' = "upsert"
    /\ hist' = Did("stability")
    /\ UNCHANGED <<listings, runs, clock, sources, results, outcome, parked,
                   jobs, job_id, text>>

\* one iteration of: for listing in normalized: INSERT ... ON CONFLICT ...
UpsertOne ==
    /\ pc = "upsert" /\ loc.i <= Len(loc.normalized)
    /\ WriteLockFree
    /\ conn' = [conn EXCEPT !.listings = Upsert(@, loc.normalized[loc.i], loc.now)]
    /\ loc' = [loc EXCEPT !.i = @ + 1]
    /\ hist' = IF loc.i = 1 THEN Did("upsert") ELSE hist
    /\ UNCHANGED <<listings, runs, clock, pc, sources, results,
                   outcome, parked,
                   jobs, job_id, text>>

\* UPDATE scrape_runs ...; commit; results[source_name] = {...}
Finalize ==
    /\ pc = "upsert" /\ loc.i > Len(loc.normalized)
    /\ WriteLockFree
    /\ LET c == [conn EXCEPT !.runs = CompleteRun(@, source_name, loc.now,
                                                  loc.mean_score, loc.summary)]
       IN  /\ conn' = c
           /\ runs' = c.runs
           /\ listings' = c.listings
           /\ hist' = [Did("finalize") EXCEPT !.absent =
                          AbsentAfterPublish(@, c.listings, source_name,
                                             loc.current_ids)]
    /\ results' = (source_name :>
                     CompletedOutcome(loc.mean_score, loc.summary, loc.stability))
                  @@ results
    /\ pc' = "close"
    /\ UNCHANGED <<clock, sources, loc, outcome, parked,
                   jobs, job_id, text>>

\* except Exception as e: a statement of the try block raises
Except ==
    /\ pc \in TrySteps
    /\ results' = (source_name :> FailedOutcome(
                        IF pc = "fetch" /\ source_name \notin STRATEGY_MAP
                        THEN "Unknown source strategy" ELSE "Exception"))
                  @@ results
    /\ pc' = "close"
    /\ hist' = Did("except")
    /\ UNCHANGED <<listings, runs, conn, clock, sources, loc, outcome, parked,
                   jobs, job_id, text>>

\* A seeded fault: every statement is committed as it executes, so closing
\* keeps the work of a run that raised.
CloseAutocommit ==
    /\ pc = "close"
    /\ conn' = NoConn
    /\ listings' = conn.listings
    /\ sources' = Tail(sources)
    /\ pc' = "loop"
    /\ loc' = LocInit
    /\ hist' = [hist EXCEPT !.steps = <<>>]
    /\ UNCHANGED <<runs, clock, results, outcome, parked,
                   jobs, job_id, text>>

\* finally: await db.close() -- uncommitted changes are rolled back
Close ==
    /\ pc = "close"
    /\ conn' = NoConn
    /\ sources' = Tail(sources)
    /\ pc' = "loop"
    /\ loc' = LocInit
    /\ hist' = RunEnded
    /\ UNCHANGED <<listings, runs, clock, results, outcome, parked,
                   jobs, job_id, text>>

\* db.close() raises inside finally: the exception leaves _run_scrape
CloseFail ==
    /\ pc = "close"
    /\ conn' = NoConn
    /\ pc' = "idle"
    /\ outcome' = "raised"
    /\ loc' = LocInit
    /\ hist' = RunEnded
    /\ UNCHANGED <<listings, runs, clock, sources, results, parked,
                   jobs, job_id, text>>

\* One step of the running call of _run_scrape.
Step(wide) ==
    \/ GetDb
    \/ GetDbFail
    \/ Return
    \/ InsertRun
    \/ Fetch(wide)
    \/ Normalize
    \/ Validate
    \/ Gate
    \/ FallbackLookup
    \/ FallbackRecord
    \/ Diff
    \/ StabilitySelect
    \/ Stability
    \/ UpsertOne
    \/ Finalize
    \/ Except
    \/ Close
    \/ CloseFail

\* Calls of _run_scrape one after the other: nothing else is in flight.
NextOf(lists, wide, max) ==
    \/ \E srcs \in lists : Start(srcs, max)
    \/ Step(wide)

Next == NextOf(DeepLists, FALSE, MaxRuns)

NextWide == NextOf(SourceLists, TRUE, MaxRunsWide)

\* Long histories over few responses.
Spec == Init /\ [][Next]_vars

\* Short histories over every response.
SpecWide == Init /\ [][NextWide]_vars

-----------------------------------------------------------------------------
(* jobs/queue.py and start_scrape: two scrape jobs in flight.  enqueue      *)
(* creates an asyncio task per job; the tasks share one event loop and each *)
(* call of _run_scrape opens its own connection (WAL mode: a reader sees    *)
(* the last commit, one connection writes at a time).                       *)

\* Runs opened in one behaviour of SpecQueue.
MaxRunsQueue == 3

\* Jobs enqueued in one behaviour of SpecQueue.
MaxJobs == 2

QueueLists == { <<"remoteok">>, <<"arbeitnow">> }

\* The positions of _run_scrape whose next statement awaits the database
\* (or get_db): the awaits at which running the other task makes a
\* difference.
AwaitPoints ==
    {"loop", "insert_run", "fallback_lookup", "fallback_record",
     "diff", "stability", "stability_update", "upsert"}

\* _now(): a job's timestamps are read by no step of a job; what is kept
\* of one is that it is set.
JobStamp == "t"

\* The record enqueue stores under a new job_id.
QueuedJob ==
    [status |-> "queued", created_at |-> JobStamp, started_at |-> None,
     completed_at |-> None, error |-> None, result |-> None]

\* start_scrape: queue.enqueue(lambda: _run_scrape(request.sources)) stores
\* the job's record and creates the task; it has not run yet.
enqueue(srcs) ==
    /\ parked = NoTask
    /\ clock + Len(sources) + Len(srcs) <= MaxRunsQueue
    /\ Len(jobs) < MaxJobs
    /\ jobs' = Append(jobs, QueuedJob)
    /\ parked' = [pc |-> "queued", sources |-> srcs, loc |-> LocInit,
                  results |-> <<>>, outcome |-> "none", conn |-> NoConn,
                  txn |-> FALSE, job_id |-> Len(jobs) + 1,
                  hist |-> [HistInit EXCEPT !.base = Len(runs),
                                            !.requested = srcs]]
    /\ UNCHANGED <<listings, runs, conn, clock, pc, sources, loc, results,
                   outcome, hist, job_id, text>>

\* _run, up to its await: the job is running and _run_scrape stands at the
\* head of its loop.
JobRun ==
    /\ pc = "queued"
    /\ jobs' = [jobs EXCEPT ![job_id].status = "running",
                            ![job_id].started_at = Some(JobStamp)]
    /\ pc' = "loop"
    /\ hist' = [hist EXCEPT !.base = Len(runs)]
    /\ UNCHANGED <<listings, runs, conn, clock, sources, loc, results,
                   outcome, parked, job_id, text>>

\* _run after the await: _run_scrape has returned its results.
JobCompleted ==
    /\ pc = "idle" /\ job_id # 0
    /\ jobs[job_id].status = "running"
    /\ outcome = "returned"
    /\ jobs' = [jobs EXCEPT ![job_id].status = "completed",
                            ![job_id].result = Some(results),
                            ![job_id].completed_at = Some(JobStamp)]
    /\ UNCHANGED <<listings, runs, conn, clock, pc, sources, loc, results,
                   outcome, hist, parked, job_id, text>>

\* A seeded fault: the except branch only logs.
JobFailedLogsOnly ==
    /\ pc = "idle" /\ job_id # 0
    /\ jobs[job_id].status = "running"
    /\ outcome = "raised"
    /\ UNCHANGED <<listings, runs, conn, clock, pc, sources, loc, results,
                   outcome, hist, parked, jobs, job_id, text>>

\* A seeded fault: the except branch does not set completed_at.
JobFailedNoStamp ==
    /\ pc = "idle" /\ job_id # 0
    /\ jobs[job_id].status = "running"
    /\ outcome = "raised"
    /\ jobs' = [jobs EXCEPT ![job_id].status = "failed",
                            ![job_id].error = Some("Exception")]
    /\ UNCHANGED <<listings, runs, conn, clock, pc, sources, loc, results,
                   outcome, hist, parked, job_id, text>>

\* _run, except Exception: _run_scrape has raised.
JobFailed ==
    /\ pc = "idle" /\ job_id # 0
    /\ jobs[job_id].status = "running"
    /\ outcome = "raised"
    /\ jobs' = [jobs EXCEPT ![job_id].status = "failed",
                            ![job_id].error = Some("Exception"),
                            ![job_id].completed_at = Some(JobStamp)]
    /\ UNCHANGED <<listings, runs, conn, clock, pc, sources, loc, results,
                   outcome, hist, parked, job_id, text>>

\* The running task awaits (or has ended) and the event loop resumes the
\* other one.  A connection with no transaction open reads the last commit;
\* the suspended task keeps the uncommitted writes of its connection.  A
\* task that has ended has stored its job's outcome: no await separates the
\* return of _run_scrape from the statements of _run that follow it.
Switch ==
    /\ parked # NoTask
    /\ pc \in AwaitPoints \cup {"idle"}
    /\ IF pc = "idle" /\ job_id # 0
       THEN jobs[job_id].status \in {"completed", "failed"} ELSE TRUE
    /\ pc' = parked.pc
    /\ sources' = parked.sources
    /\ loc' = parked.loc
    /\ results' = parked.results
    /\ outcome' = parked.outcome
    /\ job_id' = parked.job_id
    /\ conn' = IF parked.conn.open /\ ~parked.txn
               THEN [open |-> TRUE, listings |-> listings, runs |-> runs]
               ELSE parked.conn
    /\ hist' = [parked.hist EXCEPT !.absent = hist.absent,
                                   !.unreturned = hist.unreturned]
    /\ parked' = IF pc = "idle" THEN NoTask
                 ELSE [pc |-> pc, sources |-> sources, loc |-> loc,
                       results |-> results, outcome |-> outcome,
                       conn |-> conn,
                       txn |-> conn.open /\ conn.listings # listings,
                       job_id |-> job_id,
                       hist |-> hist]
    /\ UNCHANGED <<listings, runs, clock, jobs, text>>

NextQueue ==
    \/ \E srcs \in QueueLists : enqueue(srcs)
    \/ JobRun
    \/ JobCompleted
    \/ JobFailed
    \/ Switch
    \/ Step(FALSE)

\* Two jobs in flight.
SpecQueue == Init /\ [][NextQueue]_vars

\* A step of the task the event loop is running: a statement of _run or of
\* _run_scrape.  The awaited call returns or raises.
TaskStep == JobRun \/ JobCompleted \/ JobFailed \/ Step(FALSE)

\* Two jobs in flight on an event loop that keeps running the task it has
\* resumed and resumes a task that is ready.
SpecQueueFair ==
    /\ Init /\ [][NextQueue]_vars
    /\ WF_vars(TaskStep)
    /\ WF_vars(Switch)

-----------------------------------------------------------------------------
(* The scoring steps, the change detector, the stability tracker and the    *)
(* fallback lookup on every table content and every fetched list within the *)
(* bounds: the run of source UnitSource stands right before its normalize   *)
(* loop, right before its change detection, or right before its fallback    *)
(* lookup.                                                                  *)

\* The largest consecutive_misses of an active row in the drawn tables.
MaxMisses == 2

\* The longest fetched list in the drawn runs.
MaxLen == 2

\* The most scrape_runs rows of earlier runs in the drawn tables.
MaxHistory == 2

UnitSource == "remoteok"

UnitKeys == {Key("remoteok", "A"), Key("remoteok", "B"), Key("arbeitnow", "A")}

\* A row of job_listings as the upsert of a fully populated listing left it
\* at tick 0, with the given tracker columns.
PersistedRow(k, misses, active) ==
    LET l == [JobListing(k[2], k[1], "full") EXCEPT !.quality_score = 100]
        r == CHOOSE x \in Upsert({}, l, 0) : TRUE
    IN  [r EXCEPT !.consecutive_misses = misses, !.is_active = active]

\* What a key can be in the table: no row, an active row with any counter up
\* to MaxMisses, or a row deactivated at the threshold.
RowChoices ==
    {<<"none", 0>>, <<"inactive", REMOVAL_THRESHOLD>>}
    \cup {<<"active", m>> : m \in 0..MaxMisses}

Stores ==
    {{PersistedRow(k, f[k][2], f[k][1] = "active") :
         k \in {x \in UnitKeys : f[x][1] # "none"}} :
     f \in [UnitKeys -> RowChoices]}

\* A finished row of scrape_runs; quality_score is in tenths.
PastRun(source, status, quality) ==
    [RunningRun(source, 0) EXCEPT
        !.status = status, !.quality_score = quality,
        !.completed_at = IF status = "running" THEN None ELSE Some(0)]

PastRuns ==
    {PastRun(UnitSource, "running", 0), PastRun(UnitSource, "failed", 0),
     PastRun(UnitSource, "fallback", 0), PastRun(UnitSource, "completed", 425),
     PastRun(UnitSource, "completed", 599), PastRun(UnitSource, "completed", 600),
     PastRun(UnitSource, "completed", 1000),
     PastRun("arbeitnow", "completed", 1000)}

Histories ==
    UNION {[1..n -> PastRuns] : n \in 0..MaxHistory}

\* The fetched lists: every sequence of fully populated listings of
\* UnitSource over three ids, repeated ids included.
FetchedLists ==
    UNION {[1..n -> {JobListing(id, UnitSource, "full") : id \in {"A", "B", "D"}}] :
           n \in 0..MaxLen}

\* A listing of UnitSource as the normalize loop builds it, field by field.
ScoreRecord(id, title, company, url, location, salary_min, salary_max) ==
    [JobListing(id, UnitSource, "full") EXCEPT
        !.title = title, !.company = company, !.url = url,
        !.location = location, !.salary_min = salary_min,
        !.salary_max = salary_max]

\* The values of each scored column: missing, present and too short or
\* falsy, and present.
ScoreRecords(id) ==
    {ScoreRecord(id, t, c, u, l, lo, hi) :
        t \in {"", "QA", "Engineer"}, c \in {"", "X", "Acme"},
        u \in {None, Some(""), Some("u")}, l \in {None, Some("Remote")},
        lo \in {None, Some(0), Some(100000)}, hi \in {None, Some(150000)}}

\* b is a with some columns that were empty, None or 0 filled in.
FilledIn(a, b) ==
    /\ a.title = b.title \/ a.title = ""
    /\ a.company = b.company \/ a.company = ""
    /\ a.url = b.url \/ ~TruthyStr(a.url)
    /\ a.location = b.location \/ ~TruthyStr(a.location)
    /\ a.salary_min = b.salary_min \/ ~TruthyInt(a.salary_min)
    /\ a.salary_max = b.salary_max \/ ~TruthyInt(a.salary_max)

RECURSIVE Repeat(_, _)
Repeat(x, n) == IF n = 0 THEN <<>> ELSE <<x>> \o Repeat(x, n - 1)

\* Lists of 34 listings whose means are 39.85.., 40.0, 59.85.. and 60.0:
\* k listings scoring 100, one scoring extra, the rest scoring 0.
BoundaryList(k, extra) ==
    LET full == ScoreRecord("A", "Engineer", "Acme", Some("u"), Some("Remote"),
                            Some(100000), None)
        zero == ScoreRecord("A", "", "", None, None, None, None)
    IN  Repeat(full, k) \o <<extra>> \o Repeat(zero, 33 - k)

BoundaryLists ==
    {BoundaryList(13, ScoreRecord("A", "Engineer", "", None, Some("Remote"),
                                  None, Some(150000))),
     BoundaryList(13, ScoreRecord("A", "Engineer", "", Some("u"), Some("Remote"),
                                  None, None)),
     BoundaryList(20, ScoreRecord("A", "", "", Some("u"), Some("Remote"),
                                  None, None)),
     BoundaryList(20, ScoreRecord("A", "Engineer", "", None, Some("Remote"),
                                  None, None))}

\* The longest fetched list.
MaxFetched == 101

\* Lists of MaxFetched listings, all but the last scoring 40: with a last
\* one scoring 35 the mean is just below 40 (39.9504.. for 101 listings),
\* with a last one scoring 40 it is 40.
RoundingLists ==
    LET forty == ScoreRecord("A", "Engineer", "", None, Some("Remote"),
                             None, None)
        less  == ScoreRecord("A", "", "", Some("u"), Some("Remote"),
                             None, None)
    IN  {Repeat(forty, MaxFetched - 1) \o <<less>>,
         Repeat(forty, MaxFetched - 1) \o <<forty>>}

\* The lists the scoring steps are run on: the empty list, every listing
\* alone, every listing followed by one with more columns filled in, every
\* list of listings with all scored columns, and the boundary lists.
ScoreLists ==
    {<<>>}
    \cup {<<a>> : a \in ScoreRecords("A")}
    \cup {p \in ScoreRecords("A") \X ScoreRecords("B") :
               FilledIn(p[1], [p[2] EXCEPT !.external_id = "A"])}
    \cup UNION {[1..n -> {x \in ScoreRecords("A") : score_listing(x) = 100}] :
                n \in 1..MaxLen}
    \cup BoundaryLists
    \cup RoundingLists

\* The locals of a run opened at tick 1 that fetched raw.
LocAfterFetch(raw) ==
    LET normalized == [i \in DOMAIN raw |->
                          [raw[i] EXCEPT !.quality_score = score_listing(raw[i])]]
        v == score_scrape(normalized)
    IN  [LocInit EXCEPT !.now = 1, !.raw = raw, !.normalized = normalized,
                        !.mean_score = v.mean, !.issues = v.issues]

InitUnit ==
    /\ \/ /\ pc = "diff"
          /\ listings \in Stores
          /\ runs = <<RunningRun(UnitSource, 1)>>
          /\ loc \in {LocAfterFetch(raw) : raw \in FetchedLists}
          \* the gate has let the list through
          /\ ~should_reject(loc.mean_score)
       \/ /\ pc = "fallback_lookup"
          /\ listings \in Stores
          /\ runs \in {h \o <<RunningRun(UnitSource, 1)>> : h \in Histories}
          /\ loc = LocAfterFetch(<<>>)
          \* a completed run has upserted at least one listing of its source
          /\ \A i \in DOMAIN runs :
                runs[i].status = "completed" =>
                    \E r \in listings : r.source = runs[i].source
       \/ /\ pc = "normalize"
          /\ listings = {}
          /\ runs = <<RunningRun(UnitSource, 1)>>
          /\ loc \in {[LocInit EXCEPT !.now = 1, !.raw = raw] :
                          raw \in ScoreLists}
    /\ conn = [open |-> TRUE, listings |-> listings, runs |-> runs]
    /\ clock = 1
    /\ sources = <<UnitSource>>
    /\ results = <<>>
    /\ outcome = "none"
    /\ hist = [HistInit EXCEPT !.base = Len(runs) - 1,
                               !.requested = <<UnitSource>>,
                               !.attempted = <<UnitSource>>,
                               !.steps =
                                  IF pc = "normalize"
                                  THEN <<"insert_run", "fetch">>
                                  ELSE <<"insert_run", "fetch", "normalize",
                                         "score", "gate">>,
                               !.before = listings]
    /\ parked = NoTask
    /\ jobs = <<>>
    /\ job_id = 0
    /\ text = NoText

NextUnit ==
    \/ Normalize
    \/ Validate
    \/ Gate
    \/ Diff
    \/ StabilitySelect
    \/ Stability
    \/ UpsertOne
    \/ Finalize
    \/ FallbackLookup

\* The steps of one run over every input within the bounds.
SpecUnit == InitUnit /\ [][NextUnit]_vars

-----------------------------------------------------------------------------
(* The normalizers applied to every text within the bounds, and again to    *)
(* what they returned.                                                      *)

\* The longest text, in tokens.
MaxText == 5

TitleAlphabet == {"Sr.", "Dev", "qa", " ", "<", ">", "&lt;"}

CompanyAlphabet == {"Acme", "Inc.", "LLC", " ", "<", ">", "&lt;"}

LocationAlphabet == {"Remote", "anywhere", ",", " ", "(", ")", "<", ">", "&lt;"}

Texts(alphabet) == UNION {[1..n -> alphabet] : n \in 0..MaxText}

InitText ==
    /\ listings = {}
    /\ runs = <<>>
    /\ conn = NoConn
    /\ clock = 0
    /\ pc = "idle"
    /\ sources = <<>>
    /\ loc = LocInit
    /\ results = <<>>
    /\ outcome = "none"
    /\ hist = HistInit
    /\ parked = NoTask
    /\ jobs = <<>>
    /\ job_id = 0
    /\ text \in {[fn |-> "title", vals |-> <<x>>] : x \in Texts(TitleAlphabet)}
           \cup {[fn |-> "company", vals |-> <<x>>] :
                     x \in Texts(CompanyAlphabet)}
           \cup {[fn |-> "location", vals |-> <<Some(x)>>] :
                     x \in Texts(LocationAlphabet)}
           \cup {[fn |-> "location", vals |-> <<None>>]}

\* title=normalize_title(raw.title), and the same call on its result
NormalizeTitle ==
    /\ text.fn = "title" /\ Len(text.vals) < 3
    /\ text' = [text EXCEPT !.vals =
                    Append(@, normalize_title(text.vals[Len(text.vals)]))]
    /\ UNCHANGED <<listings, runs, conn, clock, pc, sources, loc, results,
                   outcome, hist, parked, jobs, job_id>>

\* company=normalize_company(raw.company), and the same call on its result
NormalizeCompany ==
    /\ text.fn = "company" /\ Len(text.vals) < 3
    /\ text' = [text EXCEPT !.vals =
                    Append(@, normalize_company(text.vals[Len(text.vals)]))]
    /\ UNCHANGED <<listings, runs, conn, clock, pc, sources, loc, results,
                   outcome, hist, parked, jobs, job_id>>

\* location=normalize_location(raw.location), and the same call on its
\* result
NormalizeLocation ==
    /\ text.fn = "location" /\ Len(text.vals) < 3
    /\ text' = [text EXCEPT !.vals =
                    Append(@, normalize_location(text.vals[Len(text.vals)]))]
    /\ UNCHANGED <<listings, runs, conn, clock, pc, sources, loc, results,
                   outcome, hist, parked, jobs, job_id>>

NextText ==
    \/ NormalizeTitle
    \/ NormalizeCompany
    \/ NormalizeLocation

\* The normalizers over every text within the bounds.
SpecText == InitText /\ [][NextText]_vars

-----------------------------------------------------------------------------
(* Vocabulary of the properties *)

Took(step) == \E i \in DOMAIN hist.steps : hist.steps[i] = step

LastStep == IF hist.steps = <<>> THEN "none" ELSE hist.steps[Len(hist.steps)]

\* The step just taken is the commit of a published run (Finalize).
PublishCommit == pc = "upsert" /\ pc' = "close" /\ runs' # runs

\* The state right after the commit of a published run.
JustPublished == pc = "close" /\ LastStep = "finalize"

AbsentOf(r) == Get(hist.absent, Key(r.source, r.external_id))

UnreturnedOf(r) == Get(hist.unreturned, Key(r.source, r.external_id))

-----------------------------------------------------------------------------
(* Properties of the stability tracker over histories of runs (Spec) *)

\* C1: a persisted listing goes from active to inactive only at the commit
\* of a published run of its own source that lacks its external_id and is
\* the third consecutive published run of that source to lack it; with
\* fewer than three such absences since its last published appearance a
\* listing is active.
C1_DeactivatedOnlyAtThirdAbsence ==
    /\ [](\A r \in listings : AbsentOf(r) < 3 => r.is_active)
    /\ [][\A r \in listings : \A q \in listings' :
             (/\ q.external_id = r.external_id /\ q.source = r.source
              /\ r.is_active /\ ~q.is_active)
             => /\ PublishCommit
                /\ r.source = source_name
                /\ r.external_id \notin loc.current_ids
                /\ Get(hist'.absent, Key(r.source, r.external_id)) = 3]_vars

\* C1 witness: a listing was deactivated by its third consecutive absence.
C1_Witness ==
    /\ JustPublished
    /\ \E r \in listings :
          /\ r.source = source_name /\ ~r.is_active /\ AbsentOf(r) = 3
          /\ r.external_id \in loc.stability.confirmed_removals

\* The scenario's three stages for one listing, by a count n of runs.
StagesHold(r, n) ==
    /\ n \in {1, 2} => r.consecutive_misses = n /\ r.is_active
    /\ n = 3 => r.consecutive_misses = 3 /\ ~r.is_active

\* C2, as stated: counting every run of the source that ends without raising
\* and does not return the listing (a rejected run too), after the first one
\* the listing has misses = 1, after the second 2, and after the third it
\* has misses = 3 and is inactive.
C2_AsStated ==
    pc \in {"loop", "idle"} =>
        \A r \in listings : StagesHold(r, UnreturnedOf(r))

\* C2, amended: counting the consecutive published runs of the source that
\* lack the listing, after the first one the listing has misses = 1 and is a
\* tentative removal of that run, after the second misses = 2 and tentative,
\* and after the third misses = 3, it is a confirmed removal of that run and
\* is inactive.
C2_ThreePublishedAbsences ==
    \A r \in listings :
        /\ StagesHold(r, AbsentOf(r))
        /\ (JustPublished /\ r.source = source_name) =>
              /\ AbsentOf(r) \in {1, 2} =>
                    /\ r.external_id \in loc.stability.tentative_removals
                    /\ r.external_id \notin loc.stability.confirmed_removals
              /\ AbsentOf(r) = 3 =>
                    /\ r.external_id \in loc.stability.confirmed_removals
                    /\ r.external_id \notin loc.stability.tentative_removals

\* C2 witness: the third stage, reached through the first two.
C2_Witness ==
    /\ JustPublished
    /\ \E r \in listings :
          /\ r.source = source_name /\ AbsentOf(r) = 3
          /\ r.consecutive_misses = 3 /\ ~r.is_active
          /\ r.first_seen = 1 /\ loc.now = 4

\* C10: the committed consecutive_misses of a key changes only at the commit
\* of a published run of its source, and then either to 0 with the id in the
\* run's current id set (a new row starts there), or by exactly +1 for a
\* listing that was active and is absent from that run.
C10_MissesOnlyResetOrPlusOne ==
    [][\A q \in listings' :
          LET had == HasRow(listings, q.external_id, q.source)
              old == RowOf(listings, q.external_id, q.source)
          IN  (~had \/ old.consecutive_misses # q.consecutive_misses)
              => /\ PublishCommit
                 /\ q.source = source_name
                 /\ \/ /\ q.external_id \in loc.current_ids
                       /\ q.consecutive_misses = 0
                    \/ /\ had /\ old.is_active
                       /\ q.external_id \notin loc.current_ids
                       /\ q.consecutive_misses = old.consecutive_misses + 1]_vars

\* C10 witness: one published run both reset a counter and incremented one.
C10_Witness ==
    /\ JustPublished
    /\ \E r \in listings : \E b \in hist.before :
          /\ b.external_id = r.external_id /\ b.source = r.source
          /\ r.consecutive_misses = b.consecutive_misses + 1
    /\ \E r \in listings : \E b \in hist.before :
          /\ b.external_id = r.external_id /\ b.source = r.source
          /\ b.consecutive_misses = 1 /\ r.consecutive_misses = 0

-----------------------------------------------------------------------------
(* Properties of one call of _run_scrape (SpecWide) *)

\* The scrape_runs rows inserted since the current call began.
NewRuns == {i \in DOMAIN runs : i > hist.base}

Requested == {hist.requested[i] : i \in DOMAIN hist.requested}

\* The rows of scrape_runs the current run of source_name opened.
OpenedRuns ==
    {i \in DOMAIN runs :
        runs[i].source = source_name /\ runs[i].started_at = loc.now}

\* C3: once the gate has seen a mean below 40, the run executes no diff, no
\* stability update and no upsert, and every row of job_listings, committed
\* or in the connection, is as it was when the run began; when the run ends
\* without raising, a scrape_runs row with status fallback has been inserted
\* for the source and the source's outcome has status "fallback".
C3_RejectedRunChangesNothing ==
    (Took("gate") /\ loc.mean_score < 400) =>
        /\ listings = hist.before
        /\ conn.listings = hist.before
        /\ ~Took("diff") /\ ~Took("stability") /\ ~Took("upsert")
        /\ ~Took("finalize")
        /\ (pc = "close" /\ LastStep # "except") =>
              /\ source_name \in DOMAIN results
              /\ results[source_name].status = "fallback"
              /\ \E i \in NewRuns :
                    /\ runs[i].source = source_name
                    /\ runs[i].status = "fallback"

\* C3 witness: a run with mean 35 over a non-empty store ended in fallback.
C3_Witness ==
    /\ pc = "close" /\ LastStep = "fallback_record"
    /\ loc.mean_score = 350
    /\ ActiveRows(hist.before, source_name) # {}

\* C4: the step after the gate is the fallback lookup exactly when the mean
\* returned by score_scrape is below 40, and the diff exactly when it is 40
\* or more, whatever the issues; no run does a step of the fallback path
\* with a mean of 40 or more, or of the publish path with a mean below 40.
C4_GateOnMeanOnly ==
    /\ LastStep = "gate" =>
          /\ pc = "fallback_lookup" <=> loc.mean_score < 400
          /\ pc = "diff" <=> loc.mean_score >= 400
    /\ (Took("fallback_lookup") \/ Took("fallback_record"))
          => loc.mean_score < 400
    /\ (Took("diff") \/ Took("stability") \/ Took("upsert") \/ Took("finalize"))
          => loc.mean_score >= 400

\* C4 witness: a run with reported issues and a mean of 40 or more was
\* published.
C4_Witness ==
    /\ JustPublished
    /\ loc.issues # <<>>
    /\ loc.mean_score >= 400 /\ loc.mean_score < 600

\* C5: when _run_scrape has returned, no scrape_runs row inserted during
\* the call has status "running".
C5_NoRunLeftRunning ==
    outcome = "returned" => \A i \in NewRuns : runs[i].status # "running"

\* C6: a call of _run_scrape always ends by returning a map that holds an
\* outcome for every requested source, whichever step failed (opening and
\* closing the store included).
C6_AlwaysReturnsFullMap ==
    (pc = "idle" /\ outcome # "none") =>
        /\ outcome = "returned"
        /\ DOMAIN results = Requested

\* C7: when a call in which no statement raised has returned, the
\* scrape_runs rows it inserted for a source are as many as its attempts
\* for that source.
C7_OneRunRecordPerAttempt ==
    (/\ outcome = "returned"
     /\ \A s \in DOMAIN results : results[s].status # "failed") =>
        \A s \in Requested :
            Cardinality({i \in NewRuns : runs[i].source = s})
            = Cardinality({j \in DOMAIN hist.attempted : hist.attempted[j] = s})

\* C8: when a statement after the insert of the run's scrape_runs row has
\* raised, that row has status "failed" and the source's outcome is failed.
C8_FailedRunRecorded ==
    (pc = "close" /\ LastStep = "except" /\ Took("insert_run")) =>
        /\ source_name \in DOMAIN results
        /\ results[source_name].status = "failed"
        /\ \A i \in OpenedRuns : runs[i].status = "failed"

\* The end-to-end scenario: the source's active ids were {A, B, C}, all with
\* consecutive_misses = 0, and the run just published returned {B, C, D},
\* every listing scoring 100.
C9_Scenario ==
    /\ JustPublished
    /\ ActiveIds(hist.before, source_name) = {"A", "B", "C"}
    /\ \A r \in ActiveRows(hist.before, source_name) : r.consecutive_misses = 0
    /\ loc.current_ids = {"B", "C", "D"}
    /\ \A i \in DOMAIN loc.normalized : loc.normalized[i].quality_score = 100

\* What the scenario leaves, but for the removed count of the run's row.
C9_Effects ==
    /\ loc.changes = [added |-> {"D"}, removed |-> {"A"}, retained |-> {"B", "C"}]
    /\ HasRow(listings, "A", source_name)
    /\ RowOf(listings, "A", source_name).consecutive_misses = 1
    /\ RowOf(listings, "A", source_name).is_active
    /\ ~HasRow(hist.before, "D", source_name)
    /\ HasRow(listings, "D", source_name)
    /\ Cardinality(OpenedRuns) = 1
    /\ \A i \in OpenedRuns :
          /\ runs[i].status = "completed"
          /\ runs[i].total_count = 3
          /\ runs[i].added_count = 1
          /\ runs[i].retained_count = 2

\* C9, as stated: in the scenario the run's scrape_runs row has removed = 0.
C9_AsStated ==
    C9_Scenario =>
        /\ C9_Effects
        /\ \A i \in OpenedRuns : runs[i].removed_count = 0

\* C9, amended: in the scenario the diff is added = {D}, removed = {A},
\* retained = {B, C}; A has misses = 1 and is active; D is inserted; the
\* run's scrape_runs row is completed with total 3, added 1, retained 2 and
\* removed 1, the size of the diff's removed set; it is the outcome returned
\* to the caller that has removed = 0, with tentative_removals = 1.
C9_RunRecordHoldsDiffCounts ==
    C9_Scenario =>
        /\ C9_Effects
        /\ \A i \in OpenedRuns : runs[i].removed_count = 1
        /\ results[source_name].removed = 0
        /\ results[source_name].tentative_removals = 1

\* No two rows of the table have the same (external_id, source).
UniqueKeys(ls) ==
    \A r \in ls : \A q \in ls :
        (r.external_id = q.external_id /\ r.source = q.source) => r = q

\* C24: the table, committed or as the open connection sees it, never holds
\* two rows with the same (external_id, source), and no step removes a key
\* from it: the set of committed keys only grows.
C24_KeysUniqueNeverDeleted ==
    /\ [](UniqueKeys(listings) /\ (conn.open => UniqueKeys(conn.listings)))
    /\ [][KeysOf(listings) \subseteq KeysOf(listings')]_vars

\* C24 witness: a published run that returned the same external_id twice
\* left one row for it, next to the rows of an earlier run.
C24_Witness ==
    /\ JustPublished
    /\ Len(loc.normalized) = 2 /\ Cardinality(loc.current_ids) = 1
    /\ \A id \in loc.current_ids :
          Cardinality({r \in listings : r.external_id = id
                                        /\ r.source = source_name}) = 1
    /\ Cardinality(KeysOf(listings)) > 1
    /\ KeysOf(hist.before) \subseteq KeysOf(listings)

-----------------------------------------------------------------------------
(* The tracker's invariant over histories of runs (Spec) *)

\* C11: every committed listing with is_active = false has
\* consecutive_misses >= 3, the removal threshold.
C11_InactiveHasThresholdMisses ==
    \A r \in listings :
        ~r.is_active => r.consecutive_misses >= REMOVAL_THRESHOLD

\* C11 witness: between two calls the store holds a deactivated listing.
C11_Witness ==
    /\ pc = "idle" /\ outcome = "returned"
    /\ \E r \in listings :
          ~r.is_active /\ r.consecutive_misses = REMOVAL_THRESHOLD

-----------------------------------------------------------------------------
(* update_stability on every table and id set (SpecUnit).  While the run's  *)
(* writes are uncommitted, listings is the table before the call and        *)
(* conn.listings the table after it.                                        *)

AfterStability == pc = "upsert" /\ LastStep = "stability" /\ loc.i = 1

StoredAfter(r) == RowOf(conn.listings, r.external_id, r.source)

\* C12: after update_stability, every listing of the source that was active
\* and whose external_id is in current_ids has consecutive_misses = 0, is
\* active, and is in neither confirmed_removals nor tentative_removals,
\* whatever its counter was.
C12_FoundResetsMisses ==
    AfterStability =>
        \A r \in ActiveRows(listings, source_name) :
            r.external_id \in loc.current_ids =>
                /\ StoredAfter(r).consecutive_misses = 0
                /\ StoredAfter(r).is_active
                /\ r.external_id \notin loc.stability.confirmed_removals
                /\ r.external_id \notin loc.stability.tentative_removals

\* C12 witness: a found listing that had two misses was reset.
C12_Witness ==
    /\ AfterStability
    /\ \E r \in ActiveRows(listings, source_name) :
          /\ r.external_id \in loc.current_ids
          /\ r.consecutive_misses = 2
          /\ StoredAfter(r).consecutive_misses = 0

\* C13: after update_stability, every listing of the source that was active,
\* is absent from current_ids and whose counter plus one is >= 3 is in
\* confirmed_removals, is not in tentative_removals, and is stored with
\* is_active = false and the counter plus one.
C13_AbsentAtThresholdConfirmed ==
    AfterStability =>
        \A r \in ActiveRows(listings, source_name) :
            (/\ r.external_id \notin loc.current_ids
             /\ r.consecutive_misses + 1 >= 3) =>
                /\ r.external_id \in loc.stability.confirmed_removals
                /\ r.external_id \notin loc.stability.tentative_removals
                /\ ~StoredAfter(r).is_active
                /\ StoredAfter(r).consecutive_misses = r.consecutive_misses + 1

\* C13 witness: an absent listing with threshold - 1 misses was confirmed
\* removed, next to a listing that was found.
C13_Witness ==
    /\ AfterStability
    /\ loc.current_ids # {}
    /\ \E r \in ActiveRows(listings, source_name) :
          /\ r.external_id \notin loc.current_ids
          /\ r.consecutive_misses = REMOVAL_THRESHOLD - 1
          /\ ~StoredAfter(r).is_active
          /\ r.external_id \in loc.stability.confirmed_removals

\* C14: after update_stability, every listing of the source that was active,
\* is absent from current_ids and whose counter plus one is < 3 is in
\* tentative_removals, is not in confirmed_removals, and is stored active
\* with the counter plus one.
C14_AbsentBelowThresholdTentative ==
    AfterStability =>
        \A r \in ActiveRows(listings, source_name) :
            (/\ r.external_id \notin loc.current_ids
             /\ r.consecutive_misses + 1 < 3) =>
                /\ r.external_id \in loc.stability.tentative_removals
                /\ r.external_id \notin loc.stability.confirmed_removals
                /\ StoredAfter(r).is_active
                /\ StoredAfter(r).consecutive_misses = r.consecutive_misses + 1

\* C14 witness: two absent listings, with 0 and with 1 misses, are both
\* tentative removals.
C14_Witness ==
    /\ AfterStability
    /\ \E r, q \in ActiveRows(listings, source_name) :
          /\ r.consecutive_misses = 0 /\ q.consecutive_misses = 1
          /\ {r.external_id, q.external_id} \subseteq loc.stability.tentative_removals
          /\ StoredAfter(r).consecutive_misses = 1
          /\ StoredAfter(q).consecutive_misses = 2

-----------------------------------------------------------------------------
(* The fallback lookup (SpecUnit) and the outcome built from it (SpecWide) *)

AfterLookup == pc = "fallback_record" /\ LastStep = "fallback_lookup"

\* Some run of the source is completed with a score of 60 or more.
Qualifying(rs, source) ==
    \E i \in DOMAIN rs :
        /\ rs[i].source = source
        /\ rs[i].status = "completed"
        /\ rs[i].quality_score >= 600

\* C15: the lookup returns None when no run of the source is completed with
\* a score of 60 or more; when one is, it returns the active listings of
\* the source, or None if there are none.
C15_LookupResult ==
    AfterLookup =>
        LET active == ActiveRows(listings, source_name)
        IN  IF Qualifying(runs, source_name) /\ active # {}
            THEN loc.fallback = Some(active)
            ELSE loc.fallback = None

\* C15 witness: the history holds a completed run scoring 59.9 and one
\* scoring 60.0, and the lookup returned the active listings.
C15_Witness ==
    /\ AfterLookup
    /\ \E i, j \in DOMAIN runs :
          /\ runs[i] = PastRun(source_name, "completed", 599)
          /\ runs[j] = PastRun(source_name, "completed", 600)
    /\ loc.fallback # None
    /\ loc.fallback[1] = ActiveRows(listings, source_name)

C17_FallbackOutcomeCount ==
    (pc = "close" /\ LastStep = "fallback_record") =>
        /\ source_name \in DOMAIN results
        /\ results[source_name].status = "fallback"
        /\ results[source_name].listings_count =
              IF Qualifying(runs, source_name)
              THEN Cardinality(ActiveRows(listings, source_name))
              ELSE 0

\* C17 witness: a rejected run with no qualifying run before it, over a
\* store that holds active listings of the source, reports 0.
C17_Witness ==
    /\ pc = "close" /\ LastStep = "fallback_record"
    /\ ~Qualifying(runs, source_name)
    /\ ActiveRows(listings, source_name) # {}
    /\ results[source_name] = FallbackOutcome(loc.mean_score, None)

-----------------------------------------------------------------------------
(* The change detector on every pair of id sets (SpecUnit) *)

AfterDiff == pc = "stability" /\ LastStep = "diff"

\* C19: with P the active ids read and C the ids fetched, added \cup
\* retained = C, removed \cup retained = P, and added, removed and retained
\* are pairwise disjoint.
C19_DiffPartitions ==
    AfterDiff =>
        LET P == ActiveIds(listings, source_name)
            C == IdsOf(loc.normalized)
            d == loc.changes
        IN  /\ d.added \cup d.retained = C
            /\ d.removed \cup d.retained = P
            /\ d.added \cap d.removed = {}
            /\ d.added \cap d.retained = {}
            /\ d.removed \cap d.retained = {}

\* C19 witness: a diff whose three sets are all non-empty.
C19_Witness ==
    /\ AfterDiff
    /\ loc.changes.added # {}
    /\ loc.changes.removed # {}
    /\ loc.changes.retained # {}

\* C20: the summary holds the sizes of added, removed and retained, and
\* total_count = |added| + |retained|, which is the number of distinct
\* fetched ids.
C20_SummaryCounts ==
    AfterDiff =>
        /\ loc.summary.added_count = Cardinality(loc.changes.added)
        /\ loc.summary.removed_count = Cardinality(loc.changes.removed)
        /\ loc.summary.retained_count = Cardinality(loc.changes.retained)
        /\ loc.summary.total_count = Cardinality(loc.changes.added)
                                     + Cardinality(loc.changes.retained)
        /\ loc.summary.total_count = Cardinality(IdsOf(loc.normalized))

\* C20 witness: a list that repeats an id, next to a removed id.
C20_Witness ==
    /\ AfterDiff
    /\ Len(loc.normalized) = 2
    /\ loc.summary.total_count = 1
    /\ loc.summary.removed_count = 1

-----------------------------------------------------------------------------
(* The scoring steps on every listing and list within the bounds (SpecUnit) *)

AfterNormalize == pc = "validate" /\ LastStep = "normalize"

\* The scored fields a listing has: a field counts as present when it meets
\* the condition of the point table (a title longer than 2 characters, a
\* company longer than 1, a non-empty url, a non-empty location, a non-zero
\* salary bound).
ScoredFields(l) ==
    (IF Len(l.title) > 2 THEN {"title"} ELSE {})
    \cup (IF Len(l.company) > 1 THEN {"company"} ELSE {})
    \cup (IF l.url \notin {None, Some("")} THEN {"url"} ELSE {})
    \cup (IF l.location \notin {None, Some("")} THEN {"location"} ELSE {})
    \cup (IF l.salary_min \notin {None, Some(0)} \/ l.salary_max \notin {None, Some(0)}
          THEN {"salary"} ELSE {})

AllScoredFields == {"title", "company", "url", "location", "salary"}

\* C21: the score given to a listing lies in 0..100; it is 100 when every
\* scored field is present and 0 when none is; and of two listings, the one
\* that has every scored field the other has (the other with absent fields
\* made present) scores at least as much.
C21_ScoreMonotonicBounded ==
    AfterNormalize =>
        \A i \in DOMAIN loc.normalized :
            LET l == loc.normalized[i]
            IN  /\ l.quality_score \in 0..100
                /\ ScoredFields(l) = AllScoredFields => l.quality_score = 100
                /\ ScoredFields(l) = {} => l.quality_score = 0
                /\ \A j \in DOMAIN loc.normalized :
                      ScoredFields(l) \subseteq ScoredFields(loc.normalized[j])
                          => l.quality_score <= loc.normalized[j].quality_score

\* C21 witness: a listing with no title and one salary bound, and the same
\* listing with a title, which scores 100.
C21_Witness ==
    /\ AfterNormalize
    /\ Len(loc.normalized) = 2
    /\ loc.normalized[1].title = ""
    /\ loc.normalized[1].salary_min = None
    /\ loc.normalized[1].quality_score = 75
    /\ FilledIn(loc.raw[1], loc.raw[2])
    /\ loc.normalized[2].quality_score = 100

\* C25: when a published run has committed, every external_id it returned
\* has a row of the run's source that is active, has consecutive_misses = 0
\* and has last_seen set by this run, whether the key was new, active,
\* tentatively missing or deactivated before the run.
C25_ReturnedIdsActive ==
    JustPublished =>
        \A id \in IdsOf(loc.raw) :
            /\ HasRow(listings, id, source_name)
            /\ RowOf(listings, id, source_name).is_active
            /\ RowOf(listings, id, source_name).consecutive_misses = 0
            /\ RowOf(listings, id, source_name).last_seen = loc.now

\* C25 witness: the run returned a key that was deactivated and a key that
\* was tentatively missing with two misses.
C25_Witness ==
    /\ JustPublished
    /\ \E r \in hist.before : \E q \in hist.before :
          /\ r.source = source_name /\ q.source = source_name
          /\ ~r.is_active
          /\ q.is_active /\ q.consecutive_misses = 2
          /\ IdsOf(loc.raw) = {r.external_id, q.external_id}
          /\ RowOf(listings, r.external_id, source_name).is_active
          /\ RowOf(listings, r.external_id, source_name).first_seen = r.first_seen

AfterScore == pc = "gate" /\ LastStep = "score"

\* C23: score_scrape gives an empty list the mean 0.0 and a non-empty list
\* of issues; it gives a non-empty list of listings that all have every
\* scored field the mean 100.0 and no issue.
C23_EmptyAndCompleteLists ==
    AfterScore =>
        /\ loc.normalized = <<>> =>
              loc.mean_score = 0 /\ loc.issues # <<>>
        /\ (/\ loc.normalized # <<>>
            /\ \A i \in DOMAIN loc.normalized :
                  ScoredFields(loc.normalized[i]) = AllScoredFields) =>
              loc.mean_score = 1000 /\ loc.issues = <<>>

\* C23 witness: two complete listings, one with salary_max only and one
\* with salary_min 0, score 100.0 with no issue.
C23_Witness ==
    /\ AfterScore
    /\ Len(loc.normalized) = 2
    /\ loc.normalized[1].salary_min = None
    /\ loc.normalized[2].salary_min = Some(0)
    /\ loc.mean_score = 1000 /\ loc.issues = <<>>

AfterGate == LastStep = "gate"

\* C22: for the mean of every scored list, should_retry holds exactly when
\* the mean is below 60.0 and should_reject (the branch the gate takes)
\* exactly when it is below 40.0, and a mean that rejects also retries.
C22_ThresholdsStrict ==
    AfterGate =>
        /\ should_retry(loc.mean_score) <=> loc.mean_score < 600
        /\ should_reject(loc.mean_score) <=> loc.mean_score < 400
        /\ pc = "fallback_lookup" <=> loc.mean_score < 400
        /\ should_reject(loc.mean_score) => should_retry(loc.mean_score)

\* C22 witness: a list whose mean is 59.9 retries and is not rejected.
C22_Witness ==
    /\ AfterGate
    /\ loc.mean_score = 599
    /\ should_retry(loc.mean_score)
    /\ pc = "diff"

-----------------------------------------------------------------------------
(* The order of the steps of one source (SpecWide) *)

PublishSteps ==
    <<"insert_run", "fetch", "normalize", "score", "gate",
      "diff", "stability", "upsert", "finalize">>

FallbackSteps ==
    <<"insert_run", "fetch", "normalize", "score", "gate",
      "fallback_lookup", "fallback_record">>

IsPrefix(s, t) == Len(s) <= Len(t) /\ \A i \in DOMAIN s : s[i] = t[i]

\* The steps the current source has completed, without the handler that
\* ended them.
StepsDone ==
    IF LastStep = "except"
    THEN SubSeq(hist.steps, 1, Len(hist.steps) - 1)
    ELSE hist.steps

-----------------------------------------------------------------------------
(* The rows of the other sources (Spec) *)

OtherRows(ls, source) == {r \in ls : r.source # source}

\* C29: a run for source S changes only rows of job_listings whose source
\* is S: no step of the run, whether it ends published, rejected or failed,
\* changes is_active, consecutive_misses, last_seen or another column of a
\* row of another source, in the committed table or in the run's own
\* uncommitted one, also when the same external_id exists under both
\* sources.
C29_OtherSourcesUnchanged ==
    [][sources # <<>> =>
          /\ OtherRows(listings', source_name) = OtherRows(listings, source_name)
          /\ (conn.open /\ conn'.open) =>
                 OtherRows(conn'.listings, source_name)
                     = OtherRows(conn.listings, source_name)]_vars

\* C29 witness: the id A exists under both sources; a published run of
\* remoteok that lacked A has been committed and counted a miss for
\* remoteok's A, and arbeitnow's A is active without a miss.
C29_Witness ==
    /\ pc = "loop"
    /\ \E a \in listings : \E b \in listings :
          /\ a.external_id = "A" /\ b.external_id = "A"
          /\ a.source = "arbeitnow" /\ b.source = "remoteok"
          /\ a.is_active /\ a.consecutive_misses = 0
          /\ b.consecutive_misses >= 1
          /\ b.last_seen > a.last_seen

-----------------------------------------------------------------------------
(* The fallback event (SpecWide) *)

\* C30: record_fallback_usage(source, reason) inserts one row into
\* scrape_runs, for that source, with status fallback and quality_score 0,
\* and the row holds the reason it was given; it changes no row of
\* job_listings and no other row of scrape_runs.
C30_FallbackEventRecorded ==
    [][(pc = "fallback_record"
          /\ hist'.steps = Append(hist.steps, "fallback_record")) =>
          /\ Len(runs') = Len(runs) + 1
          /\ SubSeq(runs', 1, Len(runs)) = runs
          /\ LET row == runs'[Len(runs')]
             IN  /\ row.source = source_name
                 /\ row.status = "fallback"
                 /\ row.quality_score = 0
                 /\ "reason" \in DOMAIN row
                 /\ row.reason = ScoreReason(loc.mean_score)
          /\ listings' = listings
          /\ conn'.listings = conn.listings]_vars

-----------------------------------------------------------------------------
(* The point table (SpecUnit) *)

\* The points of the fields other than the salary.
PointsWithoutSalary(l) ==
      (IF "title" \in ScoredFields(l) THEN 25 ELSE 0)
    + (IF "company" \in ScoredFields(l) THEN 25 ELSE 0)
    + (IF "url" \in ScoredFields(l) THEN 20 ELSE 0)
    + (IF "location" \in ScoredFields(l) THEN 15 ELSE 0)

\* C32 as stated: the score of a listing is 25 for a title longer than 2,
\* 25 for a company longer than 1, 20 for a url, 15 for a location and 15
\* for a salary bound, where a salary bound counts whenever it is not null,
\* a bound of 0 included.
C32_AsStated ==
    AfterNormalize =>
        \A i \in DOMAIN loc.normalized :
            LET l == loc.normalized[i]
            IN  l.quality_score =
                    PointsWithoutSalary(l)
                    + (IF l.salary_min # None \/ l.salary_max # None
                       THEN 15 ELSE 0)

\* C32: the score of a listing is 25 for a title longer than 2, 25 for a
\* company longer than 1, 20 for a non-empty url, 15 for a non-empty
\* location and 15 for a salary bound, where a salary bound counts when it
\* is neither null nor 0.
C32_PointTable ==
    AfterNormalize =>
        \A i \in DOMAIN loc.normalized :
            LET l == loc.normalized[i]
            IN  l.quality_score =
                    PointsWithoutSalary(l)
                    + (IF "salary" \in ScoredFields(l) THEN 15 ELSE 0)

\* C32 witness: a listing with every other field and a lower salary bound
\* of 0 as its only bound has been scored 85.
C32_Witness ==
    /\ AfterNormalize
    /\ \E i \in DOMAIN loc.normalized :
          /\ loc.normalized[i].salary_min = Some(0)
          /\ loc.normalized[i].salary_max = None
          /\ PointsWithoutSalary(loc.normalized[i]) = 85
          /\ loc.normalized[i].quality_score = 85

-----------------------------------------------------------------------------
(* The change detector and the stability tracker of one run *)

\* C33: in every published run, the removed set of the change detector is
\* the union of the confirmed and the tentative removals of the stability
\* tracker, and the two are disjoint.
C33_RemovedIsConfirmedOrTentative ==
    Took("stability") =>
        /\ loc.changes.removed =
              loc.stability.confirmed_removals
                  \cup loc.stability.tentative_removals
        /\ loc.stability.confirmed_removals
              \cap loc.stability.tentative_removals = {}

-----------------------------------------------------------------------------
(* The range of the miss counter (Spec) *)

MissesInRange(ls) ==
    \A r \in ls :
        /\ r.consecutive_misses \in 0..REMOVAL_THRESHOLD
        /\ r.is_active => r.consecutive_misses <= REMOVAL_THRESHOLD - 1

\* C34: starting from an empty store, every listing has a counter from 0
\* to 3 and every active listing a counter of at most 2, in the committed
\* table and in a run's uncommitted one; and the counter of a deactivated
\* listing never grows again.
C34_MissesInRange ==
    /\ [](MissesInRange(listings) /\ (conn.open => MissesInRange(conn.listings)))
    /\ [][\A r \in listings :
             ~r.is_active =>
                 RowOf(listings', r.external_id, r.source).consecutive_misses
                     <= r.consecutive_misses]_vars

\* C34 witness: a published run of the source of a deactivated listing has
\* been committed without returning it, and its counter is still 3.
C34_Witness ==
    /\ JustPublished
    /\ \E r \in hist.before :
          /\ r.source = source_name /\ ~r.is_active
          /\ r.external_id \notin loc.current_ids
          /\ r.consecutive_misses = REMOVAL_THRESHOLD
          /\ RowOf(listings, r.external_id, r.source).consecutive_misses
                 = REMOVAL_THRESHOLD

-----------------------------------------------------------------------------
(* Runs that return nothing (Spec) *)

\* The run in progress has fetched the empty list.
FetchedNothing == Took("fetch") /\ loc.raw = <<>>

\* C35: a run whose fetch returns no record ages no listing: its mean is
\* 0.0, it takes the fallback path, and none of its steps changes a row of
\* job_listings, committed or not, so that no counter grows and no
\* is_active is cleared, however many such runs follow one another.
C35_EmptyRunAgesNothing ==
    /\ []((FetchedNothing /\ Took("score")) => loc.mean_score = 0)
    /\ [](FetchedNothing => IsPrefix(StepsDone, FallbackSteps))
    /\ [][FetchedNothing =>
             /\ listings' = listings
             /\ (conn.open /\ conn'.open) => conn'.listings = conn.listings]_vars

\* C35 witness: a published run has been followed by three runs of the
\* same source that returned nothing, and every listing is still active
\* without a miss.
C35_Witness ==
    /\ pc = "loop"
    /\ Len(runs) = 7
    /\ runs[1].status = "completed"
    /\ \A i \in 2..7 : runs[i].source = runs[1].source
                         /\ runs[i].status \in {"running", "fallback"}
    /\ Cardinality({i \in 2..7 : runs[i].status = "fallback"}) = 3
    /\ Cardinality(listings) = 3
    /\ \A r \in listings : r.is_active /\ r.consecutive_misses = 0

-----------------------------------------------------------------------------
(* Runs that fail on the publish path (Spec) *)

\* The run in progress raised after its stability update.
FailedAfterStability == LastStep = "except" /\ Took("stability")

\* C36: a run on the publish path persists all of its changes to
\* job_listings or none.  When it raises after the stability update or
\* after some upserts and before its commit, the committed table is as it
\* was when the run began, and closing the connection leaves it so; and as
\* nothing of a failed run is kept, the counter of every active listing is
\* the number of consecutive published runs that lacked it, each counted
\* once.
C36_FailedPublishPersistsNothing ==
    /\ [](FailedAfterStability => listings = hist.before)
    /\ [][FailedAfterStability => listings' = hist.before]_vars
    /\ [](\A r \in listings :
             r.is_active => r.consecutive_misses = AbsentOf(r))

\* C36 witness: a run has raised after its stability update counted a miss
\* and after it upserted some of its listings, not all; the connection
\* holds these writes and the committed table does not.
C36_Witness ==
    /\ pc = "close" /\ FailedAfterStability /\ Took("upsert")
    /\ loc.i \in 2..Len(loc.normalized)
    /\ loc.stability.tentative_removals # {}
    /\ \E r \in conn.listings : r.consecutive_misses = 1
    /\ \E r \in conn.listings : ~HasRow(listings, r.external_id, r.source)
    /\ listings = hist.before

-----------------------------------------------------------------------------
(* A deactivated listing that comes back (Spec) *)

\* The rows of the source that were inactive when its run opened and whose
\* id the run returned.
Returning ==
    {r \in hist.before :
        /\ r.source = source_name /\ ~r.is_active
        /\ r.external_id \in loc.current_ids}

\* C37: a deactivated listing that a later published run of its source
\* returns is, once the run is committed, active with consecutive_misses 0
\* in the one row of its key, with the first_seen it had, and its id is in
\* the added set of the run and not in the retained set.
C37_DeactivatedComesBackAsAdded ==
    JustPublished =>
        \A r \in Returning :
            LET rows == {q \in listings : /\ q.external_id = r.external_id
                                          /\ q.source = r.source}
            IN  /\ Cardinality(rows) = 1
                /\ \A q \in rows : /\ q.is_active
                                    /\ q.consecutive_misses = 0
                                    /\ q.first_seen = r.first_seen
                /\ r.external_id \in loc.changes.added
                /\ r.external_id \notin loc.changes.retained

\* C37 witness: a listing that three published runs had lacked has come
\* back in a published run that is now committed.
C37_Witness ==
    /\ JustPublished
    /\ \E r \in Returning :
          /\ r.consecutive_misses = REMOVAL_THRESHOLD
          /\ RowOf(listings, r.external_id, r.source).first_seen < loc.now
          /\ results[source_name].added >= 1

-----------------------------------------------------------------------------
(* The gate on the rounded mean (SpecUnit) *)

\* The sum of the scores of the normalized list.
ScoreSum ==
    SumSeq([i \in DOMAIN loc.normalized |-> loc.normalized[i].quality_score])

\* The arithmetic mean of the scores is below the reject threshold.
ExactMeanRejects == ScoreSum < REJECT_THRESHOLD * Len(loc.normalized)

\* The gate has decided on a list that was scored and is not empty.
GateDecided == AfterGate /\ Took("normalize") /\ loc.normalized # <<>>

\* C38 as stated: for every non-empty list of scores the gate rejects the
\* run exactly when sum(scores) / count < 40.
C38_AsStated ==
    GateDecided => (pc = "fallback_lookup" <=> ExactMeanRejects)

\* C38: for every non-empty list of scores the gate rejects the run
\* exactly when the mean rounded to one decimal is below 40.0; a rejected
\* list has an arithmetic mean below 40; and for a list of fewer than 100
\* records the decision is the decision on the arithmetic mean.
C38_GateOnRoundedMean ==
    GateDecided =>
        /\ pc = "fallback_lookup"
              <=> Round1(ScoreSum, Len(loc.normalized)) < REJECT_THRESHOLD * 10
        /\ pc = "fallback_lookup" => ExactMeanRejects
        /\ Len(loc.normalized) < 100 =>
              (pc = "fallback_lookup" <=> ExactMeanRejects)

\* C38 witness: a list of more than 100 records whose arithmetic mean is
\* below 40 has a rounded mean of 40.0 and is published.
C38_Witness ==
    /\ GateDecided
    /\ Len(loc.normalized) > 100
    /\ ExactMeanRejects
    /\ loc.mean_score = 400
    /\ pc = "diff"

-----------------------------------------------------------------------------
(* The counts of a completed outcome (Spec) *)

\* The rows of the source that were active when its run opened.
ActiveBefore == ActiveRows(hist.before, source_name)

\* C31: in the outcome of a published run, removed is the number of
\* listings the run deactivated, tentative_removals the number of listings
\* that were active, were not returned and are still active, total the
\* number of distinct external_ids returned, and added the number of
\* returned ids that were not active before the run.
C31_OutcomeCounts ==
    JustPublished =>
        LET o == results[source_name]
            ids == IdsOf(loc.raw)
            Now(r) == RowOf(listings, r.external_id, r.source)
        IN  /\ o.status = "completed"
            /\ o.removed =
                  Cardinality({r \in ActiveBefore : ~Now(r).is_active})
            /\ o.tentative_removals =
                  Cardinality({r \in ActiveBefore :
                                  r.external_id \notin ids /\ Now(r).is_active})
            /\ o.total = Cardinality(ids)
            /\ o.added =
                  Cardinality({id \in ids :
                                  id \notin ActiveIds(hist.before, source_name)})

\* C31 witness: a published run has deactivated one listing and left
\* nothing tentative.
C31_Witness ==
    /\ JustPublished
    /\ results[source_name].removed = 1
    /\ results[source_name].tentative_removals = 0
    /\ results[source_name].total = 3

-----------------------------------------------------------------------------
(* The normalizers applied twice (SpecText) *)

\* C27: for every text x, applying the title, the company or the location
\* normalizer to its own result gives that result again:
\* normalize(normalize(x)) = normalize(x).
C27_NormalizersIdempotent ==
    (text.fn # "none" /\ Len(text.vals) = 3) => text.vals[3] = text.vals[2]

-----------------------------------------------------------------------------
(* The job queue (SpecQueue) *)

\* What a job's record may hold in each status.
JobWellFormed(job) ==
    /\ job.status \in {"queued", "running", "completed", "failed"}
    /\ job.result # None => job.status = "completed"
    /\ job.error # None => job.status = "failed"
    /\ job.completed_at # None <=> job.status \in {"completed", "failed"}
    /\ job.status \in {"completed", "failed"} => job.started_at # None
    /\ job.status = "queued" => job.started_at = None

\* C26: a job's record starts as queued; its status only goes from queued
\* to running and from running to completed or to failed; a completed or
\* failed record never changes again; result is set only in a completed
\* record and error only in a failed one; completed_at is set exactly in
\* the completed and failed records, which have been running.
C26_JobStateMachine ==
    /\ [](\A j \in DOMAIN jobs : JobWellFormed(jobs[j]))
    /\ [][\A j \in DOMAIN jobs' :
             IF j \in DOMAIN jobs
             THEN \/ jobs'[j] = jobs[j]
                  \/ /\ jobs[j].status = "queued"
                     /\ jobs'[j].status = "running"
                  \/ /\ jobs[j].status = "running"
                     /\ jobs'[j].status \in {"completed", "failed"}
             ELSE jobs'[j].status = "queued"]_vars

\* C26 witness: of two jobs that were in flight together, one has completed
\* with the outcome of its source and the other has failed.
C26_Witness ==
    /\ Len(jobs) = 2
    /\ jobs[1].status = "failed" /\ jobs[1].error # None
    /\ jobs[2].status = "completed" /\ jobs[2].result # None
    /\ DOMAIN jobs[2].result[1] # {}
    /\ \E i \in DOMAIN runs : \E k \in DOMAIN runs :
          i < k /\ runs[i].status = "running" /\ runs[k].status = "completed"

\* C39: every job that enqueue created eventually has the status completed
\* or failed: it stays neither queued nor running, also with another job in
\* flight at the same time.
C39_EveryJobEnds ==
    \A j \in 1..MaxJobs :
        (j \in DOMAIN jobs)
            ~> (j \in DOMAIN jobs /\ jobs[j].status \in {"completed", "failed"})

\* C39 witness: of two jobs in flight together, the one enqueued last has
\* completed while the other is still running.
C39_Witness ==
    /\ Len(jobs) = 2
    /\ jobs[1].status = "running"
    /\ jobs[2].status = "completed" /\ jobs[2].result # None
    /\ parked # NoTask /\ parked.job_id = 1

-----------------------------------------------------------------------------
(* Two jobs in flight over the same source (SpecQueue) *)

\* C18: with two scrape jobs in flight, the runs of one source do not
\* interleave (no run reads the source's active rows between another run's
\* read and its commit), so that no update of a miss counter is computed
\* from a stale read or lost: the committed counter of every active listing
\* is the number of consecutive published runs of its source, in commit
\* order, that lacked its id.
C18_NoMissUpdateLost ==
    \A r \in listings :
        r.is_active => r.consecutive_misses = AbsentOf(r)

====
